---- MODULE Spec2Model ----
(***************************************************************************)
(* Verification model of the api-gateway:                                  *)
(*   - repository.memoryStore  (in-process store, one mutex)               *)
(*   - repository.redisStore   (Lua script / MULTI-EXEC pipeline)          *)
(*   - service.Limiter         (policy -> store operation)                 *)
(*   - config.dynamicPolicyStore (policy table)                            *)
(*   - middleware.RateLimit    (HTTP stage in front of the limiter)        *)
(*   - cmd/gateway main        (the middleware chain around the mux)       *)
(*   - service.CircuitBreaker  (three-state breaker, concurrent callers)   *)
(*   - service.CircuitBreakerPool (breakers by service, two lock levels)   *)
(*   - service.ResponseCache   (bounded map of entries, concurrent callers)*)
(*   - service.CachedRoundTripper (the cache in front of the origin)       *)
(*   - middleware.APIKeyMiddleware, JWT middleware, RBACMiddleware         *)
(*                             (who the request is, what it may reach)     *)
(* Time is in milliseconds, as returned by                                 *)
(* time.Now().UnixNano() / int64(time.Millisecond).                        *)
(* Rates are whole tokens per second; the Redis script keeps fractional    *)
(* tokens, which are held here exactly in units of 1/MsPerSec token.       *)
(***************************************************************************)
EXTENDS Integers, Sequences, FiniteSets, TLC

VARIABLES
    now,        \* the wall clock read by time.Now(), in ms
    policies,   \* dynamicPolicyStore.policies : fingerprint -> PolicyConfig
    buckets,    \* memoryStore.buckets : store key -> memBucket
    sw,         \* memoryStore.sw : store key -> slice of timestamps
    rhash,      \* Redis hashes written by tokenBucketLua : key -> (tokens, last)
    rzset,      \* Redis sorted sets written by redisStore.SlidingWindow
    hist,       \* observation: the calls made so far and what they returned
    last,       \* observation: the most recent call
    mu,         \* memoryStore.mu : 0 when free, else the goroutine holding it
    pc,         \* per goroutine: position inside its store call
    loc,        \* per goroutine: locals of its store call
    backend,    \* which Store the Limiter was built with (main.go)
    resp,       \* observation: what the RateLimit middleware answered
    cb,         \* service.CircuitBreaker : the fields of one breaker
    cbp,        \* service.CircuitBreakerPool : its breakers and the locks
    rc,         \* service.ResponseCache : its map and the entries it points to
    rolePermissions, \* middleware.RBACMiddleware.rolePermissions
    apiKeys     \* middleware.APIKeyStore.keys : key -> APIKey

vars == <<now, policies, buckets, sw, rhash, rzset, hist, last, mu, pc, loc,
          backend, resp, cb, cbp, rc, rolePermissions, apiKeys>>

(***************************************************************************)
(* Bounds of the model.                                                    *)
(***************************************************************************)
MaxTime == 5
MaxCalls == 6
MaxPolCalls == 3
MaxPolTime == 2
NProcs == 3
MaxConcTime == 1
MaxReqs == 3
MaxMWTime == 1
MaxGWReqs == 3
MaxGWTime == 1
NCallers == 3
MaxCBCalls == 4
MaxCBTime == 2
NPoolProcs == 2
MaxPoolOps == 5
MaxPoolTime == 1
\* response cache: goroutines, operations, clock
NCacheProcs == 2
MaxCacheOps == 3
MaxCacheTime == 1
\* caching round tripper: requests, clock (seconds)
MaxRTReqs == 3
MaxRTTime == 2
\* policy table: operations
MaxTableOps == 3
\* built-in policies behind the middleware: requests, clock
MaxSeedReqs == 2
MaxSeedTime == 1
\* authentication and RBAC: requests, clock
MaxAuthReqs == 2
MaxAuthTime == 1

(***************************************************************************)
(* Program constants.                                                      *)
(***************************************************************************)
MsPerSec == 1000
DefaultCapacity == 100
DefaultRate == 100
DefaultLimit == 100

TokenBucketAlg == "tokenbucket"
SlidingWindowAlg == "slidingwindow"

Min(a, b) == IF a < b THEN a ELSE b
Max(a, b) == IF a > b THEN a ELSE b

\* Go map / Redis keyspace assignment m[k] = v.
Put(m, k, v) == [x \in (DOMAIN m) \cup {k} |-> IF x = k THEN v ELSE m[x]]

\* int64(x) of a float64 x = a / b truncates toward zero.
TruncDiv(a, b) == IF a >= 0 THEN a \div b ELSE -((-a) \div b)

(***************************************************************************)
(* config.dynamicPolicyStore                                               *)
(***************************************************************************)
PolicyConfig(alg, capacity, rate, windowMs, limit) ==
    [Algorithm |-> alg, Capacity |-> capacity, Rate |-> rate,
     WindowMs |-> windowMs, Limit |-> limit]

GetPolicy(key) ==
    IF key \in DOMAIN policies
    THEN policies[key]
    ELSE PolicyConfig(TokenBucketAlg, DefaultCapacity, DefaultRate, 0, DefaultLimit)

SetPolicyIfAbsent(key, p) ==
    policies' = IF key \in DOMAIN policies THEN policies
                ELSE Put(policies, key, p)

SetPolicy(key, p) == policies' = Put(policies, key, p)

\* ListPolicies: a copy of the map
ListPolicies == [k \in DOMAIN policies |-> policies[k]]

\* NewPolicyStore: the table with the three built-in policies
NewPolicyStore ==
    [k \in {"api-key:premium", "api-key:standard", "endpoint:/api/expensive"}
        |-> CASE k = "api-key:premium" ->
                    PolicyConfig("tokenbucket", 1000, 1000, 0, 0)
              [] k = "api-key:standard" ->
                    PolicyConfig("tokenbucket", 100, 100, 0, 0)
              [] OTHER -> PolicyConfig("slidingwindow", 0, 0, 1000, 10)]

(***************************************************************************)
(* repository.memoryStore.TokenBucket                                      *)
(***************************************************************************)
MemRefillNoScale(delta, refillRate) == delta * refillRate

EnoughStrict(have, want) == have > want

\* if b.tokens >= tokens
Enough(have, want) == have >= want

\* refill := int64(float64(delta) * (refillRate / 1000.0))
MemRefill(delta, refillRate) == TruncDiv(delta * refillRate, MsPerSec)

RefillLastAlways(b0, refill, t) == t

\* b.last = now, inside "if refill > 0": a call that adds no whole token
\* leaves b.last where it was
RefillLast(b0, refill, t) == IF refill > 0 THEN t ELSE b0.last

MemTokenBucket(bk, key, t, capacity, refillRate, tokens) ==
    LET b0 == IF key \in DOMAIN bk THEN bk[key]
              ELSE [tokens |-> capacity, last |-> t]
        delta == t - b0.last
        refill == MemRefill(delta, refillRate)
        b1 == IF refill > 0
              THEN [tokens |-> Min(b0.tokens + refill, capacity),
                    last |-> RefillLast(b0, refill, t)]
              ELSE [b0 EXCEPT !.last = RefillLast(b0, refill, t)]
        ok == Enough(b1.tokens, tokens)
        b2 == IF ok THEN [b1 EXCEPT !.tokens = @ - tokens] ELSE b1
    IN  [store |-> Put(bk, key, b2), allowed |-> ok, remaining |-> b2.tokens,
         err |-> FALSE]

(***************************************************************************)
(* repository.redisStore.TokenBucket and tokenBucketLua.                   *)
(* tokens are held in units of 1/MsPerSec token: the script's              *)
(* refill = delta * rate, with rate = refillRate / 1000.0 tokens per ms,   *)
(* is delta * refillRate of these units.  PEXPIRE is                       *)
(* ceil(capacity / rate * 2000) ms, at least 2000 times the time a drained *)
(* bucket needs to fill; a bucket recreated after that is full, as the     *)
(* refilled one would be, so the expiry is not part of the state.          *)
(* With rate = 0 the argument capacity / rate is infinite (or NaN), which  *)
(* PEXPIRE refuses: the script stops with an error after HMSET has         *)
(* written the hash, and the Run call returns that error.                  *)
(***************************************************************************)
LuaTokenBucket(h, key, capacity, refillRate, t, requested) ==
    LET present == key \in DOMAIN h
        tokens0 == IF present THEN h[key].tokens ELSE capacity * MsPerSec
        lastT == IF present THEN h[key].last ELSE t
        delta == Max(0, t - lastT)
        refill == delta * refillRate
        tokens1 == Min(capacity * MsPerSec, tokens0 + refill)
        ok == tokens1 >= requested * MsPerSec
        tokens2 == IF ok THEN tokens1 - requested * MsPerSec ELSE tokens1
    IN  [store |-> Put(h, key, [tokens |-> tokens2, last |-> t]),
         allowed |-> ok,
         \* a Lua number becomes a Redis integer reply by truncation
         remaining |-> TruncDiv(tokens2, MsPerSec),
         scriptErr |-> refillRate = 0]

\* fail: the script run returned a transport error (no reply was read)
RedisTokenBucket(h, key, t, capacity, refillRate, tokens, fail) ==
    IF fail
    THEN [store |-> h, allowed |-> FALSE, remaining |-> 0, err |-> TRUE]
    ELSE LET r == LuaTokenBucket(h, key, capacity, refillRate, t, tokens)
         IN  IF r.scriptErr
             THEN [store |-> r.store, allowed |-> FALSE, remaining |-> 0,
                   err |-> TRUE]
             ELSE [store |-> r.store, allowed |-> r.allowed,
                   remaining |-> r.remaining, err |-> FALSE]

(***************************************************************************)
(* repository.memoryStore.SlidingWindow                                    *)
(***************************************************************************)
\* the loop "for ; i < len(arr); i++ { if arr[i] >= cutoff { break } }"
OldPrefix(arr, cutoff) ==
    IF \E i \in 1..Len(arr) : arr[i] >= cutoff
    THEN (CHOOSE i \in 1..Len(arr) :
            /\ arr[i] >= cutoff
            /\ \A j \in 1..(i - 1) : ~(arr[j] >= cutoff)) - 1
    ELSE Len(arr)

MemSlidingWindowNoRecord(m, key, t, windowMillis) ==
    LET arr == IF key \in DOMAIN m THEN m[key] ELSE <<>>
        cutoff == t - windowMillis
        i == OldPrefix(arr, cutoff)
        arr2 == SubSeq(arr, i + 1, Len(arr))
    IN  [store |-> Put(m, key, arr2), count |-> Len(arr2) + 1, err |-> FALSE]

MemSlidingWindow(m, key, t, windowMillis) ==
    LET arr == IF key \in DOMAIN m THEN m[key] ELSE <<>>
        cutoff == t - windowMillis
        i == OldPrefix(arr, cutoff)
        arr2 == Append(SubSeq(arr, i + 1, Len(arr)), t)
    IN  [store |-> Put(m, key, arr2), count |-> Len(arr2), err |-> FALSE]

(***************************************************************************)
(* repository.redisStore.SlidingWindow: one MULTI/EXEC of                  *)
(*   ZADD zkey now now; ZREMRANGEBYSCORE zkey -inf (now - window);         *)
(*   ZCARD zkey; PEXPIRE zkey 2*window.                                    *)
(* A sorted set holds each member once; the member is the timestamp and    *)
(* so is its score, so the set is held as the set of its members.  The     *)
(* expiry removes a set whose every member ZREMRANGEBYSCORE would remove.  *)
(***************************************************************************)
ZKey(key) == key \o ":sw"

ZAdd(z, member) == z \cup {member}

ZRemRangeByScore(z, max) == {x \in z : ~(x <= max)}

RedisSlidingWindow(zs, key, t, windowMillis, fail) ==
    IF fail
    THEN [store |-> zs, count |-> 0, err |-> TRUE]
    ELSE LET z0 == IF ZKey(key) \in DOMAIN zs THEN zs[ZKey(key)] ELSE {}
             z1 == ZAdd(z0, t)
             z2 == ZRemRangeByScore(z1, t - windowMillis)
         IN  [store |-> Put(zs, ZKey(key), z2), count |-> Cardinality(z2),
              err |-> FALSE]

(***************************************************************************)
(* repository.Store: the Limiter holds one of the two implementations.     *)
(***************************************************************************)
StoreTokenBucket(kind, tb, key, t, capacity, refillRate, tokens, fail) ==
    IF kind = "memory"
    THEN MemTokenBucket(tb, key, t, capacity, refillRate, tokens)
    ELSE RedisTokenBucket(tb, key, t, capacity, refillRate, tokens, fail)

StoreSlidingWindow(kind, ws, key, t, windowMillis, fail) ==
    IF kind = "memory"
    THEN MemSlidingWindow(ws, key, t, windowMillis)
    ELSE RedisSlidingWindow(ws, key, t, windowMillis, fail)

(***************************************************************************)
(* service.Limiter.Allow                                                   *)
(***************************************************************************)
TBKeyShared(key) == "tb:"

TBKey(key) == "tb:" \o key

SWKey(key) == "sw:" \o key

\* allowed := count <= p.Limit
Allowed(count, limit) == count <= limit

\* remaining := p.Limit - count; if remaining < 0 { remaining = 0 }
Remaining(count, limit) == IF limit - count < 0 THEN 0 ELSE limit - count

\* tb, ws: the token-bucket and sliding-window state of the store of the
\* given kind; t: the clock reading the store call obtains.
LimiterAllow(kind, tb, ws, key, p, t, fail) ==
    IF p.Algorithm = TokenBucketAlg
    THEN LET r == StoreTokenBucket(kind, tb, TBKey(key), t, p.Capacity, p.Rate, 1, fail)
         IN  IF r.err
             THEN [tb |-> r.store, ws |-> ws, allowed |-> FALSE, remaining |-> 0,
                   err |-> "store", count |-> 0]
             ELSE [tb |-> r.store, ws |-> ws, allowed |-> r.allowed,
                   remaining |-> r.remaining, err |-> "", count |-> 0]
    ELSE IF p.Algorithm = SlidingWindowAlg
    THEN LET r == StoreSlidingWindow(kind, ws, SWKey(key), t, p.WindowMs, fail)
         IN  IF r.err
             THEN [tb |-> tb, ws |-> ws, allowed |-> FALSE, remaining |-> 0,
                   err |-> "store", count |-> 0]
             ELSE [tb |-> tb, ws |-> r.store, allowed |-> Allowed(r.count, p.Limit),
                   remaining |-> Remaining(r.count, p.Limit), err |-> "",
                   count |-> r.count]
    ELSE [tb |-> tb, ws |-> ws, allowed |-> FALSE, remaining |-> 0,
          err |-> "unknown algorithm", count |-> 0]

(***************************************************************************)
(* Token bucket on one fingerprint, both stores driven by the same calls   *)
(* at the same clock readings, under one policy.                           *)
(***************************************************************************)
TBCaps == {1, 2, 4}
TBRates == {500, 1000}
TBPolicies == {PolicyConfig(TokenBucketAlg, c, r, 0, 0) : c \in TBCaps, r \in TBRates}

FpA == "u1:/x"
FpB == "u2:/x"

Tick ==
    /\ now < MaxTime
    /\ now' = now + 1

Idle ==
    /\ buckets = <<>>
    /\ sw = <<>>
    /\ rhash = <<>>
    /\ rzset = <<>>
    /\ hist = <<>>
    /\ last = <<>>
    /\ mu = 0
    /\ pc = <<>>
    /\ loc = <<>>
    /\ resp = <<>>
    /\ cb = <<>>
    /\ cbp = <<>>
    /\ rc = <<>>
    /\ rolePermissions = <<>> /\ apiKeys = <<>>

\* the state of the store the Limiter was built with
StoreTB == IF backend = "memory" THEN buckets ELSE rhash
StoreWS == IF backend = "memory" THEN sw ELSE rzset

\* the Limiter's store becomes what the answer a of LimiterAllow holds
WriteStore(a) ==
    IF backend = "memory"
    THEN buckets' = a.tb /\ sw' = a.ws /\ UNCHANGED <<rhash, rzset>>
    ELSE rhash' = a.tb /\ rzset' = a.ws /\ UNCHANGED <<buckets, sw>>

\* the tokens stored under a key of the memory store ("none" when absent)
MemTokens(key) == IF key \in DOMAIN buckets THEN buckets[key].tokens ELSE "none"

InitTB ==
    /\ now = 0
    /\ policies \in [{FpA} -> TBPolicies]
    /\ backend = "both"
    /\ Idle

TickTB == Tick /\ UNCHANGED <<rolePermissions, apiKeys, cbp, rc, cb, policies, buckets, sw, rhash, rzset, hist, last,
                              mu, pc, loc, backend, resp>>

AllowTB ==
    /\ Len(hist) < MaxCalls
    /\ LET p == GetPolicy(FpA)
           m == LimiterAllow("memory", buckets, sw, FpA, p, now, FALSE)
           r == LimiterAllow("redis", rhash, rzset, FpA, p, now, FALSE)
       IN  /\ buckets' = m.tb
           /\ rhash' = r.tb
           /\ hist' = Append(hist,
                  [t |-> now, cap |-> p.Capacity, rate |-> p.Rate,
                   mAllowed |-> m.allowed, mRem |-> m.remaining,
                   mBefore |-> MemTokens(TBKey(FpA)),
                   mAfter |-> m.tb[TBKey(FpA)].tokens,
                   rAllowed |-> r.allowed, rRem |-> r.remaining])
    /\ UNCHANGED <<rolePermissions, apiKeys, cbp, rc, cb, now, policies, sw, rzset, last, mu, pc, loc, backend, resp>>

NextTB == TickTB \/ AllowTB

SpecTB == InitTB /\ [][NextTB]_vars

\* every call so far was made with the (capacity, rate) of the first one
FixedPolicy ==
    \A k \in 1..Len(hist) : hist[k].cap = hist[1].cap /\ hist[k].rate = hist[1].rate

MemAllowedIn(i, j) == Cardinality({k \in i..j : hist[k].mAllowed})
RedisAllowedIn(i, j) == Cardinality({k \in i..j : hist[k].rAllowed})

\* capacity + floor(rate * t) for the interval from call i to call j
Budget(i, j) ==
    hist[1].cap + (hist[1].rate * (hist[j].t - hist[i].t)) \div MsPerSec

\* C1: with (capacity, rate) fixed and the clock non-decreasing, the calls
\* allowed within any interval of length t (it is enough to take intervals
\* that start and end at a call) number at most capacity + floor(rate * t),
\* on the memory store and on the Redis store.
C1_BucketConservation ==
    FixedPolicy =>
        \A i \in 1..Len(hist) : \A j \in i..Len(hist) :
            /\ MemAllowedIn(i, j) <= Budget(i, j)
            /\ RedisAllowedIn(i, j) <= Budget(i, j)

\* C1 witness: an interval over which the clock advanced, more calls than
\* the capacity were allowed, and the budget was used up exactly.
C1_Witness ==
    \E i \in 1..Len(hist) : \E j \in i..Len(hist) :
        /\ hist[j].t > hist[i].t
        /\ MemAllowedIn(i, j) > hist[1].cap
        /\ MemAllowedIn(i, j) = Budget(i, j)
        /\ RedisAllowedIn(i, j) = Budget(i, j)

\* C7: for the same sequence of (timestamp, key, capacity, rate, requested)
\* calls the memory store and the Redis store return the same decision and
\* the same remaining value at every call.
C7_StoresAgree ==
    \A k \in 1..Len(hist) :
        /\ hist[k].mAllowed = hist[k].rAllowed
        /\ hist[k].mRem = hist[k].rRem

\* less than one token of refill accrues between the first call and call n
BurstUpTo(n) == (hist[n].t - hist[1].t) * GetPolicy(FpA).Rate < MsPerSec

\* C8: on a fresh key with capacity C, while less than one token of refill
\* accrues, calls 1..C are allowed with remaining C-1, ..., 0 and call C+1
\* is denied with remaining 0, the denial leaving the token count as it was.
C8_BurstThenDeny ==
    FixedPolicy =>
        \A n \in 1..Len(hist) :
            BurstUpTo(n) =>
                /\ n <= hist[1].cap =>
                       /\ hist[n].mAllowed /\ hist[n].mRem = hist[1].cap - n
                       /\ hist[n].rAllowed /\ hist[n].rRem = hist[1].cap - n
                /\ n = hist[1].cap + 1 =>
                       /\ ~hist[n].mAllowed /\ hist[n].mRem = 0
                       /\ hist[n].mAfter = hist[n].mBefore
                       /\ ~hist[n].rAllowed /\ hist[n].rRem = 0

\* C8 witness: a burst of C+1 calls, C >= 2, during which the clock moved
\* and the last call was denied.
C8_Witness ==
    /\ Len(hist) >= 3
    /\ hist[1].cap >= 2
    /\ Len(hist) = hist[1].cap + 1
    /\ BurstUpTo(Len(hist))
    /\ hist[Len(hist)].t > hist[1].t
    /\ ~hist[Len(hist)].mAllowed

(***************************************************************************)
(* Two fingerprints on a Limiter over either store, with the policy table  *)
(* rewritten between calls (dynamicPolicyStore.SetPolicy, reached through  *)
(* POST /admin/policies).                                                  *)
(***************************************************************************)
Fingerprints == {FpA, FpB}

PolPolicies ==
    { PolicyConfig(TokenBucketAlg, 4, 500, 0, 0),
      PolicyConfig(TokenBucketAlg, 1, 500, 0, 0),
      PolicyConfig(SlidingWindowAlg, 0, 0, 2, 1) }

InitPol ==
    /\ now = 0
    /\ policies \in [Fingerprints -> PolPolicies]
    /\ backend \in {"memory", "redis"}
    /\ Idle

TickPol == now < MaxPolTime /\ Tick /\ UNCHANGED <<rolePermissions, apiKeys, cbp, rc, cb, policies, buckets, sw, rhash, rzset, hist, last,
                               mu, pc, loc, backend, resp>>

SetPolicyPol ==
    /\ \E fp \in Fingerprints : \E p \in PolPolicies : SetPolicy(fp, p)
    /\ UNCHANGED <<rolePermissions, apiKeys, cbp, rc, cb, now, buckets, sw, rhash, rzset, hist, last, mu, pc, loc,
                   backend, resp>>

CallsMade == IF last = <<>> THEN 0 ELSE last.n

AllowPol ==
    /\ CallsMade < MaxPolCalls
    /\ \E fp \in Fingerprints :
        LET p == GetPolicy(fp)
            m == LimiterAllow(backend, StoreTB, StoreWS, fp, p, now, FALSE)
        IN  /\ WriteStore(m)
            /\ last' = [n |-> CallsMade + 1, fp |-> fp, alg |-> p.Algorithm,
                        cap |-> p.Capacity, t |-> now,
                        allowed |-> m.allowed, remaining |-> m.remaining]
    /\ UNCHANGED <<rolePermissions, apiKeys, cbp, rc, cb, now, policies, hist, mu, pc, loc, backend, resp>>

NextPol == TickPol \/ SetPolicyPol \/ AllowPol

SpecPol == InitPol /\ [][NextPol]_vars

\* C2: after every TokenBucket call the stored token count is between 0 and
\* the capacity passed to that call, also when the capacity differs from
\* the one earlier calls on the key were made with.
C2_TokensWithinCapacity ==
    (last # <<>> /\ last.alg = TokenBucketAlg) =>
        /\ 0 <= StoreTB[TBKey(last.fp)].tokens
        /\ StoreTB[TBKey(last.fp)].tokens
               <= (IF backend = "memory" THEN last.cap ELSE last.cap * MsPerSec)

\* what a map holds under the given keys
Restrict(m, keys) == [k \in (DOMAIN m) \cap keys |-> m[k]]

\* the key under which the store keeps a fingerprint's window
WindowKey(fp) == IF backend = "memory" THEN SWKey(fp) ELSE ZKey(SWKey(fp))

\* the bucket and window state the store holds for a fingerprint
StateOf(fp) == <<Restrict(StoreTB, {TBKey(fp)}), Restrict(StoreWS, {WindowKey(fp)})>>

\* what Limiter.Allow answers for fp on a store holding only fp's own state
AloneAnswer(fp) ==
    LimiterAllow(backend, StateOf(fp)[1], StateOf(fp)[2], fp, GetPolicy(fp), now, FALSE)

\* C6: a Limiter.Allow call on one fingerprint leaves the stored bucket and
\* window state of every other fingerprint as it was, and its own decision
\* and remaining value are those it gets on a store that holds no other
\* fingerprint's state.
C6_PolicyIsolation ==
    [][ last' # last =>
          /\ \A b \in Fingerprints \ {last'.fp} : StateOf(b)' = StateOf(b)
          /\ last'.allowed = AloneAnswer(last'.fp).allowed
          /\ last'.remaining = AloneAnswer(last'.fp).remaining ]_vars

\* C6 witness: a call on FpA was just made while FpB holds a bucket and a
\* window of its own, different from FpA's.
C6_Witness ==
    /\ last # <<>> /\ last.fp = FpA
    /\ StateOf(FpB)[1] # <<>>
    /\ StateOf(FpB)[2] # <<>>
    /\ StateOf(FpA)[1] # <<>>
    /\ StoreTB[TBKey(FpA)] # StoreTB[TBKey(FpB)]

(***************************************************************************)
(* Sliding window on one fingerprint, both stores driven by the same calls *)
(* at the same clock readings, under one policy.                           *)
(***************************************************************************)
SWWindows == {2, 3}
SWLimits == {1, 2}
SWPolicies ==
    {PolicyConfig(SlidingWindowAlg, 0, 0, w, l) : w \in SWWindows, l \in SWLimits}

InitSW ==
    /\ now = 0
    /\ policies \in [{FpA} -> SWPolicies]
    /\ backend = "both"
    /\ Idle

TickSW == Tick /\ UNCHANGED <<rolePermissions, apiKeys, cbp, rc, cb, policies, buckets, sw, rhash, rzset, hist, last,
                              mu, pc, loc, backend, resp>>

AllowSW ==
    /\ Len(hist) < MaxCalls
    /\ LET p == GetPolicy(FpA)
           m == LimiterAllow("memory", buckets, sw, FpA, p, now, FALSE)
           r == LimiterAllow("redis", rhash, rzset, FpA, p, now, FALSE)
       IN  /\ sw' = m.ws
           /\ rzset' = r.ws
           /\ hist' = Append(hist,
                  [t |-> now, window |-> p.WindowMs, limit |-> p.Limit,
                   mCount |-> m.count, mAllowed |-> m.allowed, mRem |-> m.remaining,
                   rCount |-> r.count, rAllowed |-> r.allowed, rRem |-> r.remaining])
    /\ UNCHANGED <<rolePermissions, apiKeys, cbp, rc, cb, now, policies, buckets, rhash, last, mu, pc, loc, backend, resp>>

NextSW == TickSW \/ AllowSW

SpecSW == InitSW /\ [][NextSW]_vars

\* the calls up to call i whose timestamp is newer than t_i - W
InWindow(i) == {j \in 1..i : hist[j].t > hist[i].t - hist[i].window}

\* C5: at non-decreasing timestamps the count the i-th SlidingWindow call
\* of the memory store returns is |{ j <= i : t_j > t_i - W }|; an event
\* exactly W ms old is not counted.
C5_WindowAccuracy ==
    \A i \in 1..Len(hist) : hist[i].mCount = Cardinality(InWindow(i))

\* what C9 says of the answers one store gave: count, allowed, remaining
\* are functions from the index of a call to what it returned
WindowLimitHolds(count(_), allowed(_), remaining(_)) ==
    \A i \in 1..Len(hist) :
        /\ allowed(i) <=> count(i) <= hist[i].limit
        /\ remaining(i) = Max(0, hist[i].limit - count(i))
        /\ Cardinality({j \in InWindow(i) : allowed(j)}) <= hist[i].limit
        /\ Cardinality(InWindow(i)) > hist[i].limit => ~allowed(i)

MemCount(i) == hist[i].mCount
MemAllowed(i) == hist[i].mAllowed
MemRemaining(i) == hist[i].mRem
RedisCount(i) == hist[i].rCount
RedisAllowed(i) == hist[i].rAllowed
RedisRemaining(i) == hist[i].rRem

\* C9: under a sliding-window policy (W, L), Allow returns allowed exactly
\* when the store's count is <= L, with remaining max(0, L - count); at
\* most L calls are allowed within any W ms (it is enough to take the W ms
\* that end at a call), and a call that finds L earlier calls within its
\* W ms is denied.  Stated of a Limiter over either store.
C9_WindowLimit ==
    /\ WindowLimitHolds(MemCount, MemAllowed, MemRemaining)
    /\ WindowLimitHolds(RedisCount, RedisAllowed, RedisRemaining)

\* the same of the Limiter over the memory store alone
WindowLimitMemory == WindowLimitHolds(MemCount, MemAllowed, MemRemaining)

(***************************************************************************)
(* A burst of concurrent Limiter.Allow calls on one fingerprint, one       *)
(* goroutine per call.  memoryStore: the whole body of TokenBucket and     *)
(* SlidingWindow runs between m.mu.Lock() and the deferred m.mu.Unlock();  *)
(* the body is taken in two steps, the reads (time.Now(), the map lookup)  *)
(* and the writes.  redisStore: time.Now() is read by the goroutine, then  *)
(* the Lua script or the MULTI/EXEC transaction runs on the server in one  *)
(* step.                                                                   *)
(***************************************************************************)
Procs == 1..NProcs

ConcPolicies ==
    { PolicyConfig(TokenBucketAlg, 1, 500, 0, 0),
      PolicyConfig(TokenBucketAlg, 2, 1000, 0, 0),
      PolicyConfig(SlidingWindowAlg, 0, 0, 3, 1) }

InitConc ==
    /\ now = 0
    /\ policies \in [{FpA} -> ConcPolicies]
    /\ backend \in {"memory", "redis"}
    /\ buckets = <<>>
    /\ sw = <<>>
    /\ rhash = <<>>
    /\ rzset = <<>>
    /\ hist = <<>>
    /\ last = <<>>
    /\ mu = 0
    /\ pc = [p \in Procs |-> "start"]
    /\ loc = [p \in Procs |-> <<>>]
    /\ resp = <<>>
    /\ cb = <<>>
    /\ cbp = <<>>
    /\ rc = <<>>
    /\ rolePermissions = <<>> /\ apiKeys = <<>>

TickConc ==
    /\ now < MaxConcTime
    /\ Tick
    /\ UNCHANGED <<rolePermissions, apiKeys, cbp, rc, cb, policies, buckets, sw, rhash, rzset, hist, last, mu, pc, loc,
                   backend, resp>>

NoLock(p) == TRUE

\* sync.Mutex.Lock returns once no goroutine holds the mutex
CanLock(p) == mu = 0

\* m.mu.Lock()
MemLock(p) ==
    /\ backend = "memory"
    /\ pc[p] = "start"
    /\ CanLock(p)
    /\ mu' = p
    /\ pc' = [pc EXCEPT ![p] = "locked"]
    /\ UNCHANGED <<rolePermissions, apiKeys, cbp, rc, cb, now, policies, buckets, sw, rhash, rzset, hist, last, loc,
                   backend, resp>>

\* now := time.Now()...; b, ok := m.buckets[key]  /  arr := m.sw[key]
MemLoad(p) ==
    /\ pc[p] = "locked"
    /\ loc' = [loc EXCEPT ![p] = [t |-> now, tb |-> buckets, ws |-> sw]]
    /\ pc' = [pc EXCEPT ![p] = "loaded"]
    /\ UNCHANGED <<rolePermissions, apiKeys, cbp, rc, cb, now, policies, buckets, sw, rhash, rzset, hist, last, mu,
                   backend, resp>>

\* the rest of the body, on what was read, and Limiter.Allow's result
MemStore(p) ==
    /\ pc[p] = "loaded"
    /\ LET pol == GetPolicy(FpA)
           r == LimiterAllow("memory", loc[p].tb, loc[p].ws, FpA, pol, loc[p].t, FALSE)
       IN  /\ buckets' = IF pol.Algorithm = TokenBucketAlg
                         THEN Put(buckets, TBKey(FpA), r.tb[TBKey(FpA)])
                         ELSE buckets
           /\ sw' = IF pol.Algorithm = SlidingWindowAlg
                    THEN Put(sw, SWKey(FpA), r.ws[SWKey(FpA)])
                    ELSE sw
           /\ hist' = Append(hist, [p |-> p, t |-> loc[p].t, allowed |-> r.allowed,
                                    remaining |-> r.remaining, count |-> r.count])
    /\ pc' = [pc EXCEPT ![p] = "unlock"]
    /\ UNCHANGED <<rolePermissions, apiKeys, cbp, rc, cb, now, policies, rhash, rzset, last, mu, loc, backend, resp>>

\* the deferred m.mu.Unlock()
MemUnlock(p) ==
    /\ pc[p] = "unlock"
    /\ mu' = 0
    /\ pc' = [pc EXCEPT ![p] = "done"]
    /\ UNCHANGED <<rolePermissions, apiKeys, cbp, rc, cb, now, policies, buckets, sw, rhash, rzset, hist, last, loc,
                   backend, resp>>

\* now := time.Now().UnixNano() / int64(time.Millisecond)
RedisReadClock(p) ==
    /\ backend = "redis"
    /\ pc[p] = "start"
    /\ loc' = [loc EXCEPT ![p] = [t |-> now]]
    /\ pc' = [pc EXCEPT ![p] = "sent"]
    /\ UNCHANGED <<rolePermissions, apiKeys, cbp, rc, cb, now, policies, buckets, sw, rhash, rzset, hist, last, mu,
                   backend, resp>>

\* tokenBucketLua.Run / pipe.Exec: the script, or the queued commands, run
\* on the server as one transaction
RedisExec(p) ==
    /\ pc[p] = "sent"
    /\ LET pol == GetPolicy(FpA)
           r == LimiterAllow("redis", rhash, rzset, FpA, pol, loc[p].t, FALSE)
       IN  /\ rhash' = r.tb
           /\ rzset' = r.ws
           /\ hist' = Append(hist, [p |-> p, t |-> loc[p].t, allowed |-> r.allowed,
                                    remaining |-> r.remaining, count |-> r.count])
    /\ pc' = [pc EXCEPT ![p] = "done"]
    /\ UNCHANGED <<rolePermissions, apiKeys, cbp, rc, cb, now, policies, buckets, sw, last, mu, loc, backend, resp>>

NextConc ==
    \/ TickConc
    \/ \E p \in Procs : MemLock(p)
    \/ \E p \in Procs : MemLoad(p)
    \/ \E p \in Procs : MemStore(p)
    \/ \E p \in Procs : MemUnlock(p)
    \/ \E p \in Procs : RedisReadClock(p)
    \/ \E p \in Procs : RedisExec(p)

SpecConc == InitConc /\ [][NextConc]_vars

AllDone == \A p \in Procs : pc[p] = "done"

\* the k-th call of hist when the calls are made one after another on a
\* fresh store, and the store after it
RECURSIVE SeqTB(_)
SeqTBAnswer(k) ==
    StoreTokenBucket(backend, SeqTB(k - 1), TBKey(FpA), hist[k].t,
                     GetPolicy(FpA).Capacity, GetPolicy(FpA).Rate, 1, FALSE)

SeqTB(k) == IF k = 0 THEN <<>> ELSE SeqTBAnswer(k).store

\* no refill is credited during the burst: the memory store credits whole
\* tokens, the Redis script any fraction of one
NoRefill ==
    IF backend = "memory"
    THEN BurstUpTo(Len(hist))
    ELSE \A k \in 1..Len(hist) : hist[k].t = hist[1].t

\* C3: N concurrent Limiter.Allow calls on one key return what the same
\* calls return when made one after another, in the order in which they
\* took the store's mutex (or in which the server ran their scripts); when
\* no refill is credited during the burst, min(N, C) of them are allowed.
C3_Linearizable ==
    GetPolicy(FpA).Algorithm = TokenBucketAlg =>
        /\ \A k \in 1..Len(hist) :
               /\ hist[k].allowed = SeqTBAnswer(k).allowed
               /\ hist[k].remaining = SeqTBAnswer(k).remaining
        /\ (AllDone /\ NoRefill) =>
               Cardinality({k \in 1..Len(hist) : hist[k].allowed})
                   = Min(NProcs, GetPolicy(FpA).Capacity)

\* C3 witness: the burst is over, the clock moved during it without a
\* whole token accruing, and more calls were made than were allowed.
C3_Witness ==
    /\ backend = "memory" /\ GetPolicy(FpA).Algorithm = TokenBucketAlg
    /\ AllDone
    /\ hist[Len(hist)].t > hist[1].t /\ BurstUpTo(Len(hist))
    /\ \E k \in 1..Len(hist) : ~hist[k].allowed
    /\ \E k \in 1..Len(hist) : hist[k].allowed

\* C4: N concurrent SlidingWindow calls on one empty key, all inside one
\* window, return counts that are a permutation of 1..N, on the memory
\* store and on the Redis store, whatever timestamps the calls obtain.
C4_CountsPermutation ==
    (/\ GetPolicy(FpA).Algorithm = SlidingWindowAlg
     /\ AllDone
     /\ \A i, j \in 1..Len(hist) : hist[i].t - hist[j].t < GetPolicy(FpA).WindowMs) =>
        /\ Len(hist) = NProcs
        /\ {hist[k].count : k \in 1..Len(hist)} = 1..NProcs

(***************************************************************************)
(* middleware.RateLimit in front of a Limiter over one of the two stores.  *)
(* A request is (X-API-Key, X-Forwarded-For as its comma-separated         *)
(* elements, the host of RemoteAddr, URL path).                            *)
(***************************************************************************)
\* clientIP(r)
ClientIP(r) == IF r.xff # <<>> THEN r.xff[1] ELSE r.remote

\* key := r.Header.Get("X-API-Key"); if key == "" { key = clientIP(r) }
\* lookup := strings.Join([]string{key, r.URL.Path}, ":")
Fingerprint(r) ==
    (IF r.apiKey # "" THEN r.apiKey ELSE ClientIP(r)) \o ":" \o r.path

RateLimitFailOpen(a, p) ==
    IF a.err # "" \/ a.allowed
    THEN [status |-> 0, next |-> TRUE, limitHdr |-> "", remainingHdr |-> "",
          retryAfter |-> ""]
    ELSE [status |-> 429, next |-> FALSE, limitHdr |-> p.Capacity,
          remainingHdr |-> a.remaining, retryAfter |-> 1]

\* what the handler does with Limiter.Allow's answer a under policy p:
\* status 0 stands for "whatever the next handler writes"
RateLimitAnswer(a, p) ==
    IF a.err # ""
    THEN [status |-> 500, next |-> FALSE, limitHdr |-> "", remainingHdr |-> "",
          retryAfter |-> ""]
    ELSE IF ~a.allowed
    THEN [status |-> 429, next |-> FALSE, limitHdr |-> p.Capacity,
          remainingHdr |-> a.remaining, retryAfter |-> 1]
    ELSE [status |-> 0, next |-> TRUE, limitHdr |-> p.Capacity,
          remainingHdr |-> a.remaining, retryAfter |-> ""]

Requests ==
    [apiKey : {"", "k1"}, xff : {<<>>, <<"10.0.0.9">>}, remote : {"10.0.0.1"},
     path : {"/x"}]

MWFingerprints == {Fingerprint(r) : r \in Requests}

MWPolicies ==
    { PolicyConfig(TokenBucketAlg, 1, 500, 0, 0),
      PolicyConfig(SlidingWindowAlg, 0, 0, 3, 1),
      PolicyConfig("leakybucket", 1, 500, 3, 1) }

InitMW ==
    /\ now = 0
    /\ policies \in [MWFingerprints -> MWPolicies]
    /\ backend \in {"memory", "redis"}
    /\ Idle

TickMW ==
    /\ now < MaxMWTime
    /\ Tick
    /\ UNCHANGED <<rolePermissions, apiKeys, cbp, rc, cb, policies, buckets, sw, rhash, rzset, hist, last, mu, pc, loc,
                   backend, resp>>

\* one request through the RateLimit handler; fail: the Redis call returns
\* an error (transport failure or the 50 ms deadline)
RateLimitRequest ==
    /\ Len(hist) < MaxReqs
    /\ \E r \in Requests : \E fail \in BOOLEAN :
        LET lookup == Fingerprint(r)
            p == GetPolicy(lookup)
            a == LimiterAllow(backend, StoreTB, StoreWS, lookup, p, now, fail)
            out == RateLimitAnswer(a, p)
            rec == [req |-> r, alg |-> p.Algorithm, err |-> a.err,
                    allowed |-> a.allowed, status |-> out.status,
                    next |-> out.next, limitHdr |-> out.limitHdr,
                    remainingHdr |-> out.remainingHdr,
                    retryAfter |-> out.retryAfter]
        IN  /\ backend = "memory" => ~fail
            /\ WriteStore(a)
            /\ resp' = rec
            /\ hist' = Append(hist, [err |-> a.err, status |-> out.status,
                                     next |-> out.next])
    /\ UNCHANGED <<rolePermissions, apiKeys, cbp, rc, cb, now, policies, last, mu, pc, loc, backend>>

NextMW == TickMW \/ RateLimitRequest

SpecMW == InitMW /\ [][NextMW]_vars

\* C10: a request for which Limiter.Allow returns an error is answered 500
\* and not passed to the next handler; a policy whose algorithm is neither
\* token bucket nor sliding window gives that error and the store is left
\* untouched.
C10_FailClosed ==
    [][ hist' # hist =>
          /\ resp'.err # "" => (resp'.status = 500 /\ ~resp'.next)
          /\ resp'.alg \notin {TokenBucketAlg, SlidingWindowAlg} =>
                 /\ resp'.err = "unknown algorithm"
                 /\ UNCHANGED <<buckets, sw, rhash, rzset>> ]_vars

\* C10 witness: one request failed on a store error and one on an unknown
\* algorithm, while another request had been let through to the handler.
C10_Witness ==
    /\ \E i \in 1..Len(hist) : hist[i].err = "store" /\ hist[i].status = 500
    /\ \E i \in 1..Len(hist) : hist[i].err = "unknown algorithm"
    /\ \E i \in 1..Len(hist) : hist[i].next

(***************************************************************************)
(* The handler main builds (cmd/gateway/main.go):                          *)
(*   h := RequestID(mux); h = Logging(h); h = RateLimit(...)(h);           *)
(*   h = RequestSizeLimit(MaxRequestSize)(h)                               *)
(* so a request passes RequestSizeLimit, then RateLimit, then Logging,     *)
(* then RequestID, then the mux.  A request adds to the RateLimit request  *)
(* its X-Request-ID header ("" when absent) and its Content-Length.        *)
(* expired: the 50 ms deadline of the context handed to Limiter.Allow      *)
(* passes before the store operation takes effect.  memoryStore never      *)
(* reads its ctx argument; the Redis client returns the context's error    *)
(* without sending the command.                                            *)
(***************************************************************************)
MaxRequestSize == 10 * 1024 * 1024

\* uuid.New().String()
NewUUID == "uuid"

\* RequestID: the id it puts on the request and on the response
RequestID(r) == IF r.requestID = "" THEN NewUUID ELSE r.requestID

\* RequestSizeLimit: if r.ContentLength > maxBytes { 413; return }
TooLarge(r, maxBytes) == r.contentLength > maxBytes

\* the response of h to request r; a: the answer of Limiter.Allow, p: the
\* policy, both read only when RateLimit is reached.  Header and body
\* fields are "" when absent; status 0 is the status the mux writes.
GatewayAnswer(r, a, p) ==
    IF TooLarge(r, MaxRequestSize)
    THEN [status |-> 413, next |-> FALSE, limiterRan |-> FALSE,
          xRequestID |-> "", bodyRequestID |-> "",
          limitHdr |-> "", remainingHdr |-> ""]
    ELSE LET out == RateLimitAnswer(a, p)
         IN  [status |-> out.status, next |-> out.next, limiterRan |-> TRUE,
              xRequestID |-> IF out.next THEN RequestID(r) ELSE "",
              bodyRequestID |-> IF out.status = 429 THEN r.requestID ELSE "",
              limitHdr |-> out.limitHdr, remainingHdr |-> out.remainingHdr]

GWRequests ==
    [apiKey : {"k1"}, xff : {<<>>}, remote : {"10.0.0.1"}, path : {"/x"},
     requestID : {"", "cid-1"},
     contentLength : {0, MaxRequestSize, MaxRequestSize + 1}]

GWFingerprints == {Fingerprint(r) : r \in GWRequests}

GWPolicies ==
    { PolicyConfig(TokenBucketAlg, 1, 500, 0, 0),
      PolicyConfig(TokenBucketAlg, 2, 0, 0, 0),
      PolicyConfig(SlidingWindowAlg, 0, 0, 3, 1) }

InitGW ==
    /\ now = 0
    /\ policies \in [GWFingerprints -> GWPolicies]
    /\ backend \in {"memory", "redis"}
    /\ Idle

TickGW ==
    /\ now < MaxGWTime
    /\ Tick
    /\ UNCHANGED <<rolePermissions, apiKeys, cbp, rc, cb, policies, buckets, sw, rhash, rzset, hist, last, mu, pc,
                   loc, backend, resp>>

GatewayRequest ==
    /\ Len(hist) < MaxGWReqs
    /\ \E r \in GWRequests : \E expired \in BOOLEAN :
        LET lookup == Fingerprint(r)
            p == GetPolicy(lookup)
            a == LimiterAllow(backend, StoreTB, StoreWS, lookup, p, now, expired)
            out == GatewayAnswer(r, a, p)
        IN  /\ IF out.limiterRan
               THEN WriteStore(a)
               ELSE UNCHANGED <<buckets, sw, rhash, rzset>>
            /\ resp' = [req |-> r, expired |-> expired, policy |-> p,
                        err |-> IF out.limiterRan THEN a.err ELSE "",
                        remaining |-> IF out.limiterRan THEN a.remaining ELSE 0,
                        storeChanged |-> out.limiterRan
                            /\ (a.tb # StoreTB \/ a.ws # StoreWS),
                        out |-> out]
            /\ hist' = Append(hist, [status |-> out.status, expired |-> expired])
    /\ UNCHANGED <<rolePermissions, apiKeys, cbp, rc, cb, now, policies, last, mu, pc, loc, backend>>

NextGW == TickGW \/ GatewayRequest

SpecGW == InitGW /\ [][NextGW]_vars

\* the last request reached Limiter.Allow
Evaluated == resp # <<>> /\ resp.out.limiterRan

\* C11: a request governed by a token-bucket policy with rate = 0 gets an
\* error from the limiter, no store operation is performed for it, and it
\* is refused (not passed on).
C11_ZeroRateRejected ==
    (/\ Evaluated
     /\ resp.policy.Algorithm = TokenBucketAlg
     /\ resp.policy.Rate = 0) =>
        /\ resp.err # ""
        /\ ~resp.storeChanged
        /\ ~resp.out.next

\* C12: when the 50 ms deadline passes before the store operation has
\* taken effect, the store call returns an error, bucket and window state
\* are unchanged, and the request is answered 500.
C12_DeadlineHonored ==
    (Evaluated /\ resp.expired) =>
        /\ resp.err # ""
        /\ ~resp.storeChanged
        /\ resp.out.status = 500

\* C13: every response carries an X-Request-ID header, the 429, 413 and 500
\* responses included, and the request_id of a 429 body equals that header.
C13_RequestIDOutermost ==
    resp # <<>> =>
        /\ resp.out.xRequestID # ""
        /\ resp.out.status = 429 => resp.out.bodyRequestID = resp.out.xRequestID

\* C14: a request whose Content-Length exceeds MaxRequestSize is evaluated
\* by the limiter first and then answered 413.
C14_LimitBeforeSize ==
    (resp # <<>> /\ resp.req.contentLength > MaxRequestSize) =>
        /\ resp.out.limiterRan
        /\ resp.out.status = 413

\* C15: on a response for which the limiter produced a decision,
\* X-RateLimit-Limit is the policy's capacity under a token-bucket policy
\* and the policy's limit under a sliding-window policy, and
\* X-RateLimit-Remaining is the remaining quota the limiter returned.
C15_RateLimitHeaders ==
    (Evaluated /\ resp.err = "") =>
        /\ resp.out.limitHdr =
               (IF resp.policy.Algorithm = TokenBucketAlg
                THEN resp.policy.Capacity ELSE resp.policy.Limit)
        /\ resp.out.remainingHdr = resp.remaining

(***************************************************************************)
(* service.CircuitBreaker.  cb holds the fields of one breaker; the        *)
(* sections of Call that run under cb.mu are single steps:                 *)
(*   CallEnter  - the state check and admission                            *)
(*   FnReturn   - fn has returned; recordFailure or recordSuccess          *)
(*   Release    - the deferred cb.currentRequests--                        *)
(* Between CallEnter and FnReturn the goroutine executes fn outside the    *)
(* lock.  hist logs, in the order cb.mu serialises them, "ok" and "fail"   *)
(* for the calls whose fn returned, "open" for a call answered             *)
(* ErrCircuitBreakerOpen and "reset" for CircuitBreakerPool.Reset.         *)
(***************************************************************************)
StateClosed == "closed"
StateOpen == "open"
StateHalfOpen == "half-open"

TimedOutInclusive(c, t) == t - c.lastFailureTime >= c.timeout

NeverSaturated(c) == FALSE

\* time.Since(cb.lastFailureTime) > cb.timeout
TimedOut(c, t) == t - c.lastFailureTime > c.timeout

\* cb.state == StateHalfOpen && cb.currentRequests >= cb.maxConcurrentRequests
Saturated(c) ==
    c.state = StateHalfOpen /\ c.currentRequests >= c.maxConcurrentRequests

recordFailureLate(c, t) ==
    LET c1 == [c EXCEPT !.failureCount = @ + 1, !.lastFailureTime = t,
                        !.successCount = 0]
    IN  IF c1.failureCount > c1.failureThreshold
        THEN [c1 EXCEPT !.state = StateOpen]
        ELSE c1

recordSuccessKeepFailures(c) ==
    LET c1 == [c EXCEPT !.successCount = @ + 1]
    IN  IF c1.state = StateHalfOpen /\ c1.successCount >= c1.successThreshold
        THEN [c1 EXCEPT !.state = StateClosed, !.successCount = 0]
        ELSE c1

recordFailure(c, t) ==
    LET c1 == [c EXCEPT !.failureCount = @ + 1, !.lastFailureTime = t,
                        !.successCount = 0]
    IN  IF c1.failureCount >= c1.failureThreshold
        THEN [c1 EXCEPT !.state = StateOpen]
        ELSE c1

recordSuccess(c) ==
    LET c1 == [c EXCEPT !.failureCount = 0, !.successCount = @ + 1]
    IN  IF c1.state = StateHalfOpen /\ c1.successCount >= c1.successThreshold
        THEN [c1 EXCEPT !.state = StateClosed, !.successCount = 0]
        ELSE c1

\* the breaker after the state check of Call (lines 47-56) at clock t
AfterStateCheck(c, t) ==
    IF c.state = StateOpen /\ TimedOut(c, t)
    THEN [c EXCEPT !.state = StateHalfOpen, !.successCount = 0]
    ELSE c

\* Call returns ErrCircuitBreakerOpen before fn
Rejects(c, t) ==
    \/ c.state = StateOpen /\ ~TimedOut(c, t)
    \/ Saturated(AfterStateCheck(c, t))

NewCircuitBreaker(failureThreshold, successThreshold, timeout) ==
    [state |-> StateClosed, failureCount |-> 0, successCount |-> 0,
     failureThreshold |-> failureThreshold,
     successThreshold |-> successThreshold, timeout |-> timeout,
     lastFailureTime |-> 0, maxConcurrentRequests |-> 100,
     currentRequests |-> 0]

FailureThresholds == {1, 2}
SuccessThresholds == {1, 2}
Timeouts == {1}
\* cb.maxConcurrentRequests = n, as the package's tests set it
MaxConcurrents == {1, 2}

Callers == 1..NCallers

Executing == {p \in Callers : pc[p] = "fn"}

InitCB ==
    /\ now = 0
    /\ \E f \in FailureThresholds : \E s \in SuccessThresholds :
       \E d \in Timeouts : \E m \in MaxConcurrents :
           cb = [NewCircuitBreaker(f, s, d) EXCEPT !.maxConcurrentRequests = m]
    /\ pc = [p \in Callers |-> "idle"]
    /\ loc = [p \in Callers |-> <<>>]
    /\ hist = <<>>
    /\ policies = <<>> /\ buckets = <<>> /\ sw = <<>> /\ rhash = <<>>
    /\ rzset = <<>> /\ last = <<>> /\ mu = 0 /\ backend = "memory"
    /\ resp = <<>>
    /\ cbp = <<>>
    /\ rc = <<>>
    /\ rolePermissions = <<>> /\ apiKeys = <<>>

TickCB ==
    /\ now < MaxCBTime
    /\ now' = now + 1
    /\ UNCHANGED <<rolePermissions, apiKeys, cbp, rc, cb, policies, buckets, sw, rhash, rzset, hist, last, mu, pc,
                   loc, backend, resp>>

\* Call, lines 44-65
CallEnter(p) ==
    /\ pc[p] = "idle"
    /\ Len(hist) + Cardinality(Executing) < MaxCBCalls
    /\ LET c == AfterStateCheck(cb, now)
       IN  IF Rejects(cb, now)
           THEN /\ cb' = c
                /\ hist' = Append(hist, "open")
                /\ UNCHANGED <<pc, loc>>
           ELSE /\ cb' = [c EXCEPT !.currentRequests = @ + 1]
                /\ pc' = [pc EXCEPT ![p] = "fn"]
                /\ loc' = [loc EXCEPT ![p] = [admitted |-> c.state]]
                /\ UNCHANGED hist
           \* observation: how the most recent Call was answered
    /\ last' = [admitted |-> ~Rejects(cb, now),
                state |-> AfterStateCheck(cb, now).state]
    /\ UNCHANGED <<rolePermissions, apiKeys, cbp, rc, now, policies, buckets, sw, rhash, rzset, mu, backend, resp>>

\* Call, lines 74-85: fn returned err; failed: err != nil
FnReturn(p) ==
    /\ pc[p] = "fn"
    /\ \E failed \in BOOLEAN :
        /\ cb' = IF failed THEN recordFailure(cb, now) ELSE recordSuccess(cb)
        /\ hist' = Append(hist, IF failed THEN "fail" ELSE "ok")
    /\ pc' = [pc EXCEPT ![p] = "release"]
    /\ loc' = [loc EXCEPT ![p] = <<>>]
    /\ UNCHANGED <<rolePermissions, apiKeys, cbp, rc, now, policies, buckets, sw, rhash, rzset, last, mu,
                   backend, resp>>

\* fn panics: Call unwinds without recording; the deferred decrement of
\* lines 68-72 is still to run
FnPanic(p) ==
    /\ pc[p] = "fn"
    /\ pc' = [pc EXCEPT ![p] = "release"]
    /\ loc' = [loc EXCEPT ![p] = <<>>]
    /\ UNCHANGED <<rolePermissions, apiKeys, cbp, rc, cb, now, policies, buckets, sw, rhash, rzset, hist,
                   last, mu, backend, resp>>

ReleasedNot(c) == c

\* cb.currentRequests--
Released(c) == [c EXCEPT !.currentRequests = @ - 1]

\* Call, lines 68-72: the deferred decrement
Release(p) ==
    /\ pc[p] = "release"
    /\ cb' = Released(cb)
    /\ pc' = [pc EXCEPT ![p] = "idle"]
    /\ UNCHANGED <<rolePermissions, apiKeys, cbp, rc, now, policies, buckets, sw, rhash, rzset, hist, last,
                   mu, loc, backend, resp>>

ResetKeepCounts(c) == [c EXCEPT !.state = StateClosed]

\* cb.state = StateClosed; cb.failureCount = 0; cb.successCount = 0
ResetFields(c) ==
    [c EXCEPT !.state = StateClosed, !.failureCount = 0, !.successCount = 0]

\* CircuitBreakerPool.Reset on this breaker
ResetCB ==
    /\ Len(hist) + Cardinality(Executing) < MaxCBCalls
    /\ cb' = ResetFields(cb)
    /\ hist' = Append(hist, "reset")
    /\ UNCHANGED <<rolePermissions, apiKeys, cbp, rc, now, policies, buckets, sw, rhash, rzset, last, mu, pc, loc,
                   backend, resp>>

NextCB ==
    \/ TickCB
    \/ \E p \in Callers : CallEnter(p)
    \/ \E p \in Callers : FnReturn(p)
    \/ \E p \in Callers : FnPanic(p)
    \/ \E p \in Callers : Release(p)
    \/ ResetCB

SpecCB == InitCB /\ [][NextCB]_vars

\* the number of "fail" entries at the end of the log h
TrailingFails(h) ==
    LET n == Len(h)
    IN  CHOOSE k \in 0..n :
            /\ \A i \in (n - k + 1)..n : h[i] = "fail"
            /\ k = n \/ h[n - k] # "fail"

\* this step is a Call that was admitted to fn
AdmitStep == \E p \in Callers : pc[p] = "idle" /\ pc'[p] = "fn"

\* this step is a Call that was answered ErrCircuitBreakerOpen
RejectStep == hist' = Append(hist, "open")

\* the breaker is open and the timeout has not elapsed
OpenWithinTimeout ==
    cb.state = StateOpen /\ now - cb.lastFailureTime <= cb.timeout

\* C16: from closed, a failing call leaves the breaker open exactly when it
\* is the failure_threshold-th consecutive failure; while the breaker is
\* open and the timeout has not elapsed, no call is admitted to fn.
C16_OpenOnThreshold ==
    [][ /\ (cb.state = StateClosed /\ hist' = Append(hist, "fail")) =>
               (cb'.state = StateOpen
                    <=> TrailingFails(hist') = cb.failureThreshold)
        /\ OpenWithinTimeout => ~AdmitStep ]_vars

\* C16 witness: with failure_threshold = 2, two failures in a row opened
\* the breaker and the call after them was answered circuit-open.
C16_Witness ==
    /\ cb.failureThreshold = 2
    /\ cb.state = StateOpen
    /\ hist = <<"fail", "fail", "open">>

\* C17: a failing call recorded while the breaker is half-open leaves it
\* open with last_failure_time set to the time of the failure, whatever
\* successes were recorded in half-open before.
C17_HalfOpenFailureOpens ==
    [][ (cb.state = StateHalfOpen /\ hist' = Append(hist, "fail")) =>
            (cb'.state = StateOpen /\ cb'.lastFailureTime = now) ]_vars

\* C18 as stated: while the breaker is half-open, at most max_concurrent
\* calls are executing fn.
C18_HalfOpenExecutingBound ==
    cb.state = StateHalfOpen =>
        Cardinality(Executing) <= cb.maxConcurrentRequests

\* the calls executing fn that were admitted while half-open
ExecutingTrial == {p \in Executing : loc[p].admitted = StateHalfOpen}

\* C18 amended: at most max_concurrent calls admitted in half-open are
\* executing fn; when a call is admitted in half-open, at most
\* max_concurrent calls in all are executing fn; a call that finds the
\* breaker half-open with max_concurrent calls in flight is answered
\* circuit-open and fn is not invoked for it.
C18_HalfOpenAdmissionBound ==
    /\ [](Cardinality(ExecutingTrial) <= cb.maxConcurrentRequests)
    /\ [][ /\ (AdmitStep /\ cb'.state = StateHalfOpen) =>
                  Cardinality(Executing') <= cb.maxConcurrentRequests
           /\ (/\ AfterStateCheck(cb, now).state = StateHalfOpen
               /\ cb.currentRequests >= cb.maxConcurrentRequests) =>
                  ~AdmitStep ]_vars

\* C18 witness: the breaker is half-open, max_concurrent calls admitted in
\* half-open are executing fn, and the most recent call found the breaker
\* half-open and was answered circuit-open.
C18_Witness ==
    /\ cb.state = StateHalfOpen
    /\ Cardinality(ExecutingTrial) = cb.maxConcurrentRequests
    /\ last # <<>> /\ ~last.admitted /\ last.state = StateHalfOpen

\* C19 as stated: a call made while the breaker is open and the timeout
\* has not elapsed is answered circuit-open, fn is not invoked and the
\* breaker's fields are unchanged; a call made while it is open after the
\* timeout moves it to half-open with success_count = 0 and is admitted.
C19_OpenUntilTimeout ==
    [][ /\ OpenWithinTimeout =>
               (~AdmitStep /\ (RejectStep => cb' = cb))
        /\ (/\ cb.state = StateOpen /\ ~OpenWithinTimeout
            /\ (AdmitStep \/ RejectStep)) =>
               /\ cb'.state = StateHalfOpen
               /\ cb'.successCount = 0
               /\ AdmitStep ]_vars

\* C19 amended: as C19, but the call made after the timeout is admitted
\* exactly when fewer than max_concurrent calls are in flight; otherwise
\* it is answered circuit-open, the breaker having moved to half-open.
C19_OpenUntilTimeoutOrFull ==
    [][ /\ OpenWithinTimeout =>
               (~AdmitStep /\ (RejectStep => cb' = cb))
        /\ (/\ cb.state = StateOpen /\ ~OpenWithinTimeout
            /\ (AdmitStep \/ RejectStep)) =>
               /\ cb'.state = StateHalfOpen
               /\ cb'.successCount = 0
               /\ AdmitStep <=>
                      cb.currentRequests < cb.maxConcurrentRequests ]_vars

\* C19 witness: a call was answered circuit-open, and a later call, made
\* after the timeout, moved the breaker to half-open and is executing fn.
C19_Witness ==
    /\ cb.state = StateHalfOpen /\ cb.successCount = 0
    /\ \E i \in 1..Len(hist) : hist[i] = "open"
    /\ last # <<>> /\ last.admitted /\ last.state = StateHalfOpen
    /\ ExecutingTrial # {}

\* C20: a step of a half-open breaker (other than a pool Reset) leaves it
\* closed exactly when it records the success that brings success_count
\* to success_threshold, and then failure_count and success_count are 0.
C20_CloseOnSuccessThreshold ==
    [][ (cb.state = StateHalfOpen /\ hist' # Append(hist, "reset")) =>
            /\ cb'.state = StateClosed <=>
                   (/\ hist' = Append(hist, "ok")
                    /\ cb.successCount + 1 = cb.successThreshold)
            /\ cb'.state = StateClosed =>
                   (cb'.failureCount = 0 /\ cb'.successCount = 0) ]_vars

\* C20 witness: with success_threshold = 2, the breaker opened on a
\* failure and two successes in half-open closed it, counters at 0.
C20_Witness ==
    /\ cb.successThreshold = 2 /\ cb.failureThreshold = 1
    /\ hist = <<"fail", "ok", "ok">>
    /\ cb.state = StateClosed
    /\ cb.failureCount = 0 /\ cb.successCount = 0

\* the calls that were admitted and have not run the deferred decrement
InCall == {p \in Callers : pc[p] \in {"fn", "release"}}

\* C21 as stated: currentRequests is never negative and equals the number
\* of admitted calls whose fn has not yet returned; it changes only by +1
\* on admission and by -1 on the exit of an admitted call.
C21_InFlightIsExecuting ==
    /\ [](cb.currentRequests >= 0)
    /\ [](cb.currentRequests = Cardinality(Executing))
    /\ [][ /\ cb'.currentRequests = cb.currentRequests + 1 <=> AdmitStep
           /\ cb'.currentRequests # cb.currentRequests =>
                  (AdmitStep \/ \E p \in Callers :
                       pc[p] = "release" /\ pc'[p] = "idle") ]_vars

\* C21 amended: currentRequests is never negative and equals the number of
\* admitted calls that have not yet run their deferred decrement, which
\* runs after fn has returned and its result was recorded, or after fn
\* panicked; it is incremented only on admission, decremented once by
\* each admitted call on its way out, and unchanged by rejected calls and
\* by Reset.
C21_InFlightIsInCall ==
    /\ [](cb.currentRequests >= 0)
    /\ [](cb.currentRequests = Cardinality(InCall))
    /\ [][ /\ cb'.currentRequests = cb.currentRequests + 1 <=> AdmitStep
           /\ cb'.currentRequests = cb.currentRequests - 1 <=>
                  (\E p \in Callers : pc[p] = "release" /\ pc'[p] = "idle")
           /\ (RejectStep \/ hist' = Append(hist, "reset")) =>
                  cb'.currentRequests = cb.currentRequests ]_vars

\* C21 witness: one admitted call is executing fn while another has left
\* fn and not yet run its decrement, after a call was rejected and the
\* breaker was reset.
C21_Witness ==
    /\ cb.currentRequests = 2
    /\ \E p, q \in Callers : pc[p] = "fn" /\ pc[q] = "release"
    /\ \E i, j \in 1..Len(hist) : hist[i] = "open" /\ hist[j] = "reset"

(***************************************************************************)
(* service.CircuitBreakerPool with its locks.  cbp holds                   *)
(*   breakers : service -> the fields of its CircuitBreaker                *)
(*   mu       : cbp.mu, a sync.RWMutex                                     *)
(*   cbmu     : service -> the cb.mu of its breaker                        *)
(*   ops      : the number of operations started                           *)
(* A lock is [w |-> the goroutine holding it for writing, or 0,            *)
(*            r |-> the goroutines holding it for reading].                *)
(* A goroutine is at "idle" between operations; every other position names *)
(* the section of code it is in and so the locks it holds.  A step into a  *)
(* position that holds a lock is the Lock/RLock call returning.  A section *)
(* that takes one lock, calls nothing that blocks and releases it (Get,    *)
(* the three sections of Call) is one step, taken when the lock is free.   *)
(***************************************************************************)
FreeLock == [w |-> 0, r |-> {}]

CanWLock(l) == l.w = 0 /\ l.r = {}
CanRLock(l) == l.w = 0
WLock(l, t) == [l EXCEPT !.w = t]
RLock(l, t) == [l EXCEPT !.r = @ \cup {t}]
Unlock(l, t) == [w |-> IF l.w = t THEN 0 ELSE l.w, r |-> l.r \ {t}]

PoolProcs == 1..NPoolProcs
Services == {"service1", "service2"}

\* NewCircuitBreakerPool(failureThreshold, successThreshold, timeout)
PoolFailureTh == 1
PoolSuccessTh == 1
PoolTimeout == 0

\* the locks goroutine t holds
Held(t) ==
    (IF cbp.mu.w = t \/ t \in cbp.mu.r THEN {"cbp.mu"} ELSE {})
        \cup {s \in DOMAIN cbp.cbmu : cbp.cbmu[s].w = t \/ t \in cbp.cbmu[s].r}

InitPool ==
    /\ now = 0
    /\ cbp = [breakers |-> <<>>, mu |-> FreeLock, cbmu |-> <<>>, ops |-> 0]
    /\ pc = [t \in PoolProcs |-> "idle"]
    /\ loc = [t \in PoolProcs |-> <<>>]
    /\ policies = <<>> /\ buckets = <<>> /\ sw = <<>> /\ rhash = <<>>
    /\ rzset = <<>> /\ hist = <<>> /\ last = <<>> /\ mu = 0
    /\ backend = "memory" /\ resp = <<>> /\ cb = <<>> /\ rc = <<>>
    /\ rolePermissions = <<>> /\ apiKeys = <<>>

PoolRest == <<rolePermissions, apiKeys, rc, cb, policies, buckets, sw, rhash, rzset, hist, last, mu,
              backend, resp>>

TickPool ==
    /\ now < MaxPoolTime
    /\ now' = now + 1
    /\ UNCHANGED <<cbp, pc, loc, PoolRest>>

\* goroutine t moves to position q with locals l
Goto(t, q, l) ==
    /\ pc' = [pc EXCEPT ![t] = q]
    /\ loc' = [loc EXCEPT ![t] = l]

\* an operation starts: op on service s, its first lock taken
Start(t) == pc[t] = "idle" /\ cbp.ops < MaxPoolOps

\* CircuitBreakerPool.Get: one section under cbp.mu
Get(t) ==
    /\ Start(t) /\ CanWLock(cbp.mu)
    /\ \E s \in Services :
        cbp' = [cbp EXCEPT
            !.breakers = IF s \in DOMAIN @ THEN @
                         ELSE Put(@, s, NewCircuitBreaker(PoolFailureTh,
                                            PoolSuccessTh, PoolTimeout)),
            !.cbmu = IF s \in DOMAIN @ THEN @ ELSE Put(@, s, FreeLock),
            !.ops = @ + 1]
    /\ UNCHANGED <<now, pc, loc, PoolRest>>

\* CircuitBreaker.Call on the breaker Get returned for s, lines 44-65:
\* one section under cb.mu
CallAdmit(t) ==
    /\ Start(t)
    /\ \E s \in DOMAIN cbp.breakers :
        LET b == cbp.breakers[s]
            c == AfterStateCheck(b, now)
        IN  /\ CanWLock(cbp.cbmu[s])
            /\ IF Rejects(b, now)
               THEN /\ cbp' = [cbp EXCEPT !.breakers[s] = c, !.ops = @ + 1]
                    /\ UNCHANGED <<pc, loc>>
               ELSE /\ cbp' = [cbp EXCEPT
                           !.breakers[s] = [c EXCEPT !.currentRequests = @ + 1],
                           !.ops = @ + 1]
                    /\ Goto(t, "call.fn", [service |-> s])
    /\ UNCHANGED <<now, PoolRest>>

\* Call, lines 74-85: fn returned; one section under cb.mu
CallRecord(t) ==
    /\ pc[t] = "call.fn"
    /\ LET s == loc[t].service
       IN  /\ CanWLock(cbp.cbmu[s])
           /\ \E failed \in BOOLEAN :
               cbp' = [cbp EXCEPT
                   !.breakers[s] = IF failed THEN recordFailure(@, now)
                                   ELSE recordSuccess(@)]
    /\ Goto(t, "call.defer", loc[t])
    /\ UNCHANGED <<now, PoolRest>>

\* fn panics: Call unwinds to the deferred function of lines 68-72
CallFnPanic(t) ==
    /\ pc[t] = "call.fn"
    /\ Goto(t, "call.defer", loc[t])
    /\ UNCHANGED <<now, cbp, PoolRest>>

\* Call, lines 68-72: the deferred decrement, one section under cb.mu
CallDec(t) ==
    /\ pc[t] = "call.defer"
    /\ LET s == loc[t].service
       IN  /\ CanWLock(cbp.cbmu[s])
           /\ cbp' = [cbp EXCEPT !.breakers[s] = Released(@)]
    /\ Goto(t, "idle", <<>>)
    /\ UNCHANGED <<now, PoolRest>>

\* CircuitBreakerPool.Reset: cbp.mu.Lock()
ResetLockPool(t) ==
    /\ Start(t) /\ CanWLock(cbp.mu)
    /\ \E s \in Services : Goto(t, "reset.pool", [service |-> s])
    /\ cbp' = [cbp EXCEPT !.mu = WLock(@, t), !.ops = @ + 1]
    /\ UNCHANGED <<now, PoolRest>>

\* Reset: no breaker under the name; deferred cbp.mu.Unlock()
ResetMiss(t) ==
    /\ pc[t] = "reset.pool"
    /\ loc[t].service \notin DOMAIN cbp.breakers
    /\ cbp' = [cbp EXCEPT !.mu = Unlock(@, t)]
    /\ Goto(t, "idle", <<>>)
    /\ UNCHANGED <<now, PoolRest>>

\* Reset: cb.mu.Lock(), with cbp.mu held
ResetLockCB(t) ==
    /\ pc[t] = "reset.pool"
    /\ loc[t].service \in DOMAIN cbp.breakers
    /\ CanWLock(cbp.cbmu[loc[t].service])
    /\ cbp' = [cbp EXCEPT !.cbmu[loc[t].service] = WLock(@, t)]
    /\ Goto(t, "reset.cb", loc[t])
    /\ UNCHANGED <<now, PoolRest>>

\* Reset: the three assignments, cb.mu.Unlock(), deferred cbp.mu.Unlock()
ResetBody(t) ==
    /\ pc[t] = "reset.cb"
    /\ LET s == loc[t].service
       IN  cbp' = [cbp EXCEPT !.breakers[s] = ResetFields(@),
                              !.cbmu[s] = Unlock(@, t),
                              !.mu = Unlock(@, t)]
    /\ Goto(t, "idle", <<>>)
    \* observation: the breaker Reset acted on and the state it found
    /\ last' = [service |-> loc[t].service,
                from |-> cbp.breakers[loc[t].service].state]
    /\ UNCHANGED <<rolePermissions, apiKeys, now, rc, cb, policies, buckets, sw,
                   rhash, rzset, hist, mu, backend, resp>>

\* ResetAll and GetMetrics: cbp.mu.RLock()
SnapshotLock(t) ==
    /\ Start(t) /\ CanRLock(cbp.mu)
    /\ \E op \in {"resetall", "metrics"} : Goto(t, "snap", [op |-> op])
    /\ cbp' = [cbp EXCEPT !.mu = RLock(@, t), !.ops = @ + 1]
    /\ UNCHANGED <<now, PoolRest>>

\* ResetAll and GetMetrics: copy of the map, cbp.mu.RUnlock()
SnapshotCopy(t) ==
    /\ pc[t] = "snap"
    /\ cbp' = [cbp EXCEPT !.mu = Unlock(@, t)]
    /\ Goto(t, "each", [op |-> loc[t].op, todo |-> DOMAIN cbp.breakers])
    /\ UNCHANGED <<now, PoolRest>>

\* the loop over the copy: cb.mu.Lock() in ResetAll, cb.mu.RLock() in
\* cb.GetMetrics; the range order of a map is any order
EachLock(t) ==
    /\ pc[t] = "each" /\ loc[t].todo # {}
    /\ \E s \in loc[t].todo :
        /\ IF loc[t].op = "resetall"
           THEN CanWLock(cbp.cbmu[s])
                /\ cbp' = [cbp EXCEPT !.cbmu[s] = WLock(@, t)]
           ELSE CanRLock(cbp.cbmu[s])
                /\ cbp' = [cbp EXCEPT !.cbmu[s] = RLock(@, t)]
        /\ Goto(t, "each.cb", [op |-> loc[t].op, todo |-> loc[t].todo \ {s},
                               service |-> s])
    /\ UNCHANGED <<now, PoolRest>>

EachBody(t) ==
    /\ pc[t] = "each.cb"
    /\ LET s == loc[t].service
       IN  cbp' = [cbp EXCEPT
               !.breakers[s] = IF loc[t].op = "resetall" THEN ResetFields(@)
                               ELSE @,
               !.cbmu[s] = Unlock(@, t)]
    /\ Goto(t, "each", [op |-> loc[t].op, todo |-> loc[t].todo])
    /\ UNCHANGED <<now, PoolRest>>

EachDone(t) ==
    /\ pc[t] = "each" /\ loc[t].todo = {}
    /\ Goto(t, "idle", <<>>)
    /\ UNCHANGED <<now, cbp, PoolRest>>

NextPool ==
    \/ TickPool
    \/ \E t \in PoolProcs : Get(t)
    \/ \E t \in PoolProcs : CallAdmit(t)
    \/ \E t \in PoolProcs : CallRecord(t)
    \/ \E t \in PoolProcs : CallFnPanic(t)
    \/ \E t \in PoolProcs : CallDec(t)
    \/ \E t \in PoolProcs : ResetLockPool(t)
    \/ \E t \in PoolProcs : ResetMiss(t)
    \/ \E t \in PoolProcs : ResetLockCB(t)
    \/ \E t \in PoolProcs : ResetBody(t)
    \/ \E t \in PoolProcs : SnapshotLock(t)
    \/ \E t \in PoolProcs : SnapshotCopy(t)
    \/ \E t \in PoolProcs : EachLock(t)
    \/ \E t \in PoolProcs : EachBody(t)
    \/ \E t \in PoolProcs : EachDone(t)

SpecPool == InitPool /\ [][NextPool]_vars

\* C22: Reset on a service with a breaker leaves that breaker closed with
\* failureCount = 0 and successCount = 0, so that a call made on it next,
\* at any time, is admitted; the other breakers are unchanged; Reset on a
\* service without a breaker leaves the pool as it was.
C22_ResetForcesClosed ==
    [][ \A t \in PoolProcs :
          /\ (pc[t] = "reset.cb" /\ pc'[t] = "idle") =>
                LET s == loc[t].service
                    b == cbp'.breakers[s]
                IN  /\ b.state = StateClosed
                    /\ b.failureCount = 0 /\ b.successCount = 0
                    /\ \A u \in now..(MaxPoolTime + 1) : ~Rejects(b, u)
                    /\ DOMAIN cbp'.breakers = DOMAIN cbp.breakers
                    /\ \A o \in DOMAIN cbp.breakers \ {s} :
                           cbp'.breakers[o] = cbp.breakers[o]
          /\ (pc[t] = "reset.pool" /\ pc'[t] = "idle") =>
                cbp'.breakers = cbp.breakers ]_vars

\* C22 witness: Reset found a breaker open or half-open, that breaker is
\* now closed with its counters at 0, and the other service's breaker is
\* open with its failure still recorded.
C22_Witness ==
    /\ last # <<>> /\ last.from # StateClosed
    /\ cbp.breakers[last.service].state = StateClosed
    /\ cbp.breakers[last.service].failureCount = 0
    /\ \E o \in DOMAIN cbp.breakers \ {last.service} :
           /\ cbp.breakers[o].state = StateOpen
           /\ cbp.breakers[o].failureCount > 0

\* goroutine t waits for a lock that is not free
Blocked(t) ==
    \/ /\ pc[t] = "reset.pool"
       /\ loc[t].service \in DOMAIN cbp.breakers
       /\ ~CanWLock(cbp.cbmu[loc[t].service])
    \/ /\ pc[t] = "each" /\ loc[t].todo # {}
       /\ \A s \in loc[t].todo :
              IF loc[t].op = "resetall" THEN ~CanWLock(cbp.cbmu[s])
              ELSE ~CanRLock(cbp.cbmu[s])
    \/ /\ pc[t] = "call.defer"
       /\ ~CanWLock(cbp.cbmu[loc[t].service])

\* some goroutine is inside an operation and all of those wait for a lock
Deadlocked ==
    /\ \E t \in PoolProcs : pc[t] # "idle"
    /\ \A t \in PoolProcs : pc[t] # "idle" => Blocked(t)

\* C23: no operation holds more than one lock at a time, and no
\* interleaving of Get, Call, Reset, ResetAll and GetMetrics deadlocks.
C23_OneLockNoDeadlock ==
    /\ \A t \in PoolProcs : Cardinality(Held(t)) <= 1
    /\ ~Deadlocked

\* the second half of C23 on its own
NoDeadlockPool == ~Deadlocked

(***************************************************************************)
(* service.ResponseCache                                                   *)
(*                                                                         *)
(* rc.cache is the map key -> *CacheEntry, rc.heap the entries the         *)
(* pointers refer to (an entry stays reachable through the pointer a Get   *)
(* holds after the map has dropped it), rc.nextId the number of entries    *)
(* allocated so far.  0 is the nil pointer.                                *)
(***************************************************************************)

\* NewResponseCache(maxSize, maxEntrySize)
CacheMaxSize == 2
CacheMaxEntry == 2

NewResponseCache == [cache |-> <<>>, heap |-> <<>>, nextId |-> 0, ops |-> 0]

\* CacheEntry.IsExpired at clock reading t
IsExpiredNever(e, t) == FALSE

IsExpired(e, t) == t > e.expiresAt

\* entry, exists := rc.cache[key]
CacheLookupMiss(c, k) == 0

CacheLookup(c, k) == IF k \in DOMAIN c.cache THEN c.cache[k] ELSE 0

\* delete(rc.cache, key)
CacheDelete(c, k) == [c EXCEPT !.cache = Restrict(@, DOMAIN @ \ {k})]

\* rc.cache = make(map[string]*CacheEntry)
CacheClear(c) == [c EXCEPT !.cache = <<>>]

\* entry.HitCount++
HitIncLost(c, id) == c

HitInc(c, id) == [c EXCEPT !.heap[id].hitCount = @ + 1]

\* evictLRU: the keys the range loop can leave in lruKey, one of the keys
\* of minimal HitCount, whichever the map iteration meets first; "" when
\* the map is empty
EvictCandidates(c) ==
    IF DOMAIN c.cache = {} THEN {""}
    ELSE {k \in DOMAIN c.cache :
             \A o \in DOMAIN c.cache :
                 c.heap[c.cache[k]].hitCount <= c.heap[c.cache[o]].hitCount}

\* evictLRU with lruKey = l
evictLRU(c, l) == IF l # "" THEN CacheDelete(c, l) ELSE c

\* rc.cache[key] = entry, entry a newly allocated CacheEntry
CacheInsert(c, k, e) ==
    [c EXCEPT !.nextId = @ + 1,
              !.heap = Put(@, c.nextId + 1, e),
              !.cache = Put(@, k, c.nextId + 1)]

\* ResponseCache.Set: the caches it can leave
CacheSet(c, k, e) ==
    IF Len(e.body) > CacheMaxEntry THEN {c}
    ELSE IF Cardinality(DOMAIN c.cache) >= CacheMaxSize
         THEN {CacheInsert(evictLRU(c, l), k, e) : l \in EvictCandidates(c)}
         ELSE {CacheInsert(c, k, e)}

\* cleanupExpired, one tick of the ticker at clock reading t
CacheSweep(c, t) ==
    [c EXCEPT !.cache =
        Restrict(@, {k \in DOMAIN @ : ~IsExpired(c.heap[c.cache[k]], t)})]

\* the garbage collector: entries no map slot and no goroutine points to
CacheCollect(c, refs) ==
    [c EXCEPT !.heap =
        Restrict(@, {c.cache[k] : k \in DOMAIN c.cache} \cup refs)]

CacheProcs == 1..NCacheProcs
CacheKeys == {"", "a", "b"}

\* entries handed to Set: status, headers, body
CacheInputs ==
    { [status |-> 200, headers |-> [CacheControl |-> "max-age=300"],
       body |-> <<1>>],
      [status |-> 404, headers |-> [CacheControl |-> ""], body |-> <<1, 2>>],
      [status |-> 200, headers |-> [CacheControl |-> ""],
       body |-> <<1, 2, 3>>] }

NewEntry(in, exp) ==
    [status |-> in.status, headers |-> in.headers, body |-> in.body,
     expiresAt |-> exp, hitCount |-> 0]

\* the entries goroutines other than p point to
RefsBut(p) == {loc[q].entry : q \in {q \in CacheProcs \ {p} : pc[q] # "idle"}}

InitCache ==
    /\ now = 0
    /\ rc = NewResponseCache
    /\ pc = [p \in CacheProcs |-> "idle"]
    /\ loc = [p \in CacheProcs |-> <<>>]
    /\ policies = <<>> /\ buckets = <<>> /\ sw = <<>> /\ rhash = <<>>
    /\ rzset = <<>> /\ hist = <<>> /\ last = <<>> /\ mu = 0
    /\ backend = "memory" /\ resp = <<>> /\ cb = <<>> /\ cbp = <<>>
    /\ rolePermissions = <<>> /\ apiKeys = <<>>

CacheRest == <<rolePermissions, apiKeys, cb, cbp, policies, buckets, sw, rhash, rzset, hist, mu,
               backend, resp>>

TickCache ==
    /\ now < MaxCacheTime
    /\ now' = now + 1
    /\ UNCHANGED <<rc, pc, loc, last, CacheRest>>

CacheStart(p) == pc[p] = "idle" /\ rc.ops < MaxCacheOps

\* ResponseCache.Get, lines 281-287: the lookup under RLock
RCGetLookup(p) ==
    /\ CacheStart(p)
    /\ \E k \in CacheKeys :
        LET id == CacheLookup(rc, k)
        IN  /\ rc' = [rc EXCEPT !.ops = @ + 1]
            /\ IF id = 0
               THEN UNCHANGED <<pc, loc>>
               ELSE /\ pc' = [pc EXCEPT ![p] = "get.check"]
                    /\ loc' = [loc EXCEPT ![p] = [key |-> k, entry |-> id]]
    /\ UNCHANGED <<now, last, CacheRest>>

\* Get, line 289: entry.IsExpired(), outside the lock
RCGetCheck(p) ==
    /\ pc[p] = "get.check"
    /\ pc' = [pc EXCEPT ![p] =
                IF IsExpired(rc.heap[loc[p].entry], now) THEN "get.delete"
                ELSE "get.hit"]
    /\ loc' = [loc EXCEPT ![p] = [key |-> loc[p].key, entry |-> loc[p].entry,
                                  at |-> now]]
    /\ UNCHANGED <<now, rc, last, CacheRest>>

\* Get, lines 290-291: rc.Delete(key); return nil, false
RCGetDelete(p) ==
    /\ pc[p] = "get.delete"
    /\ rc' = CacheCollect(CacheDelete(rc, loc[p].key), RefsBut(p))
    /\ pc' = [pc EXCEPT ![p] = "idle"]
    /\ loc' = [loc EXCEPT ![p] = <<>>]
    /\ last' = IF last # <<>> /\ last.key = loc[p].key THEN <<>> ELSE last
    /\ UNCHANGED <<now, CacheRest>>

\* Get, lines 295-299: HitCount++ under Lock; return entry, true
RCGetHit(p) ==
    /\ pc[p] = "get.hit"
    /\ rc' = CacheCollect(HitInc(rc, loc[p].entry), RefsBut(p))
    /\ pc' = [pc EXCEPT ![p] = "idle"]
    /\ loc' = [loc EXCEPT ![p] = <<>>]
    /\ UNCHANGED <<now, last, CacheRest>>

\* ResponseCache.Set(key, entry)
RCSet(p) ==
    /\ CacheStart(p)
    /\ \E k \in CacheKeys, in \in CacheInputs, exp \in {0, MaxCacheTime} :
        \E c \in CacheSet(rc, k, NewEntry(in, exp)) :
            /\ rc' = CacheCollect([c EXCEPT !.ops = @ + 1], RefsBut(p))
            /\ last' = IF c = rc THEN last
                       ELSE [key |-> k, id |-> c.nextId,
                             entry |-> NewEntry(in, exp)]
    /\ UNCHANGED <<now, pc, loc, CacheRest>>

\* ResponseCache.Delete(key)
RCDelete(p) ==
    /\ CacheStart(p)
    /\ \E k \in CacheKeys :
        /\ rc' = CacheCollect([CacheDelete(rc, k) EXCEPT !.ops = @ + 1],
                              RefsBut(p))
        /\ last' = IF last # <<>> /\ last.key = k THEN <<>> ELSE last
    /\ UNCHANGED <<now, pc, loc, CacheRest>>

\* ResponseCache.Clear()
RCClear(p) ==
    /\ CacheStart(p)
    /\ rc' = CacheCollect([CacheClear(rc) EXCEPT !.ops = @ + 1], RefsBut(p))
    /\ last' = <<>>
    /\ UNCHANGED <<now, pc, loc, CacheRest>>

\* cleanupExpired: the ticker fires
RCSweep ==
    /\ rc' = CacheCollect(CacheSweep(rc, now), RefsBut(0))
    /\ rc' # rc
    /\ last' = <<>>
    /\ UNCHANGED <<now, pc, loc, CacheRest>>

NextCache ==
    \/ TickCache
    \/ RCSweep
    \/ \E p \in CacheProcs :
        \/ RCGetLookup(p)
        \/ RCGetCheck(p)
        \/ RCGetDelete(p)
        \/ RCGetHit(p)
        \/ RCSet(p)
        \/ RCDelete(p)
        \/ RCClear(p)

SpecCache == InitCache /\ [][NextCache]_vars

\* the part of an entry a caller of Set supplies and a caller of Get reads
Content(e) == [status |-> e.status, headers |-> e.headers, body |-> e.body]

CacheSize == Cardinality(DOMAIN rc.cache)

\* C25: the number of cache entries never exceeds max_size, and a Set of
\* a key that is not present, made when the cache holds max_size entries,
\* leaves max_size entries.
C25_SizeBounded ==
    /\ [](CacheSize <= CacheMaxSize)
    /\ [][ (rc'.nextId # rc.nextId /\ CacheSize = CacheMaxSize
               /\ last'.key \notin DOMAIN rc.cache)
            => Cardinality(DOMAIN rc'.cache) = CacheMaxSize ]_vars

\* C26: a Get returns an entry only if expires_at had not passed when the
\* Get read the clock; a Get that reads the clock after the expires_at of
\* the entry it found removes the entry under its key and returns without
\* an entry; a sweep leaves no entry whose expires_at has passed.
C26_NoExpiredReturned ==
    [][ /\ \A p \in CacheProcs :
            /\ (pc[p] = "get.hit" /\ pc'[p] = "idle")
                  => loc[p].at <= rc.heap[loc[p].entry].expiresAt
            /\ (pc[p] = "get.check" /\ pc'[p] # "get.check"
                    /\ now > rc.heap[loc[p].entry].expiresAt)
                  => pc'[p] = "get.delete"
            /\ (pc[p] = "get.delete" /\ pc'[p] = "idle")
                  => /\ loc[p].key \notin DOMAIN rc'.cache
                     /\ \A k \in DOMAIN rc'.cache :
                            rc'.cache[k] # loc[p].entry
                     /\ rc'.heap = Restrict(rc.heap, DOMAIN rc'.heap)
        /\ (rc'.ops = rc.ops /\ pc' = pc /\ rc'.cache # rc.cache)
              => \A k \in DOMAIN rc'.cache :
                    now <= rc'.heap[rc'.cache[k]].expiresAt ]_vars

\* C26 witness: an entry that a Get returned before its expires_at has
\* expired since, a later Get has found it under its key and read the
\* clock, and is about to remove it.
C26_Witness ==
    \E p \in CacheProcs :
        /\ pc[p] = "get.delete"
        /\ CacheLookup(rc, loc[p].key) = loc[p].entry
        /\ rc.heap[loc[p].entry].hitCount >= 1
        /\ loc[p].at > rc.heap[loc[p].entry].expiresAt

\* C27: in every step the hit_count of an entry grows by the number of
\* Gets that return that entry in the step and so never decreases: N
\* returning Gets, in any interleaving, add exactly N.
C27_HitCountMonotonic ==
    [][ \A id \in DOMAIN rc.heap \cap DOMAIN rc'.heap :
          rc'.heap[id].hitCount = rc.heap[id].hitCount
              + Cardinality({p \in CacheProcs :
                    pc[p] = "get.hit" /\ pc'[p] = "idle"
                        /\ loc[p].entry = id}) ]_vars

\* C27 witness: one Get has returned the entry and a second Get of the
\* same entry has passed its expiry check and is about to return it.
C27_Witness ==
    \E p \in CacheProcs :
        /\ pc[p] = "get.hit"
        /\ rc.heap[loc[p].entry].hitCount = 1
        /\ rc.ops = 3 /\ rc.nextId = 1

(***************************************************************************)
(* service.CachedRoundTripper                                              *)
(*                                                                         *)
(* One goroutine sends requests through RoundTrip, one at a time.  A       *)
(* Cache-Control value is the sequence of its comma-separated directives,  *)
(* a directive a name with a number ("max-age=1" is Dir("max-age", 1));    *)
(* the header X-Cache is "" when absent.  The clock counts seconds.        *)
(***************************************************************************)

Dir(name, arg) == [name |-> name, arg |-> arg]

\* GenerateCacheKey: the MD5 digest is taken to be injective on the
\* formatted strings
GenerateCacheKey(method, path, query) ==
    method \o ":" \o path \o ":" \o query

\* CacheableResponse(status, headers)
CacheableResponseNever(status, headers) == FALSE

CacheableResponse(status, headers) ==
    IF headers.CacheControl = <<Dir("no-cache", 0)>>
          \/ headers.CacheControl = <<Dir("no-store", 0)>>
    THEN FALSE
    ELSE status = 200 \/ status = 404

\* 5 * time.Minute, in seconds
DefaultTTL == 5 * 60

\* ExtractCacheTTL: Sscanf(cacheControl, "max-age=%d", &maxAge) reads a
\* number only when the value starts with max-age=
ExtractCacheTTL(headers) ==
    LET cc == headers.CacheControl
        maxAge == IF cc # <<>> /\ cc[1].name = "max-age" THEN cc[1].arg ELSE 0
    IN  IF maxAge > 0 THEN maxAge ELSE DefaultTTL

RTRequests ==
    { [method |-> "GET", path |-> "/x", query |-> ""],
      [method |-> "GET", path |-> "/x", query |-> "a=1"],
      [method |-> "POST", path |-> "/x", query |-> ""] }

\* what the origin answers
OriginResponses ==
    { [status |-> 200, body |-> <<1>>,
       headers |-> [CacheControl |-> <<>>, XCache |-> ""]],
      [status |-> 404, body |-> <<2>>,
       headers |-> [CacheControl |-> <<Dir("max-age", 1)>>, XCache |-> ""]],
      [status |-> 500, body |-> <<3>>,
       headers |-> [CacheControl |-> <<>>, XCache |-> ""]],
      [status |-> 200, body |-> <<4>>,
       headers |-> [CacheControl |-> <<Dir("no-cache", 0)>>, XCache |-> ""]],
      [status |-> 200, body |-> <<5>>,
       headers |-> [CacheControl |-> <<Dir("no-store", 0)>>, XCache |-> ""]],
      [status |-> 200, body |-> <<6>>,
       headers |-> [CacheControl |-> <<Dir("no-cache", 0), Dir("max-age", 0)>>,
                    XCache |-> ""]],
      [status |-> 404, body |-> <<7>>,
       headers |-> [CacheControl |-> <<Dir("private", 0), Dir("no-store", 0)>>,
                    XCache |-> ""]],
      [status |-> 200, body |-> <<8, 8, 8>>,
       headers |-> [CacheControl |-> <<>>, XCache |-> ""]] }

\* ResponseCache.Get run by one goroutine at clock reading t:
\* the cache it leaves and the entry it returns (0: nil, false)
CacheGet(c, k, t) ==
    LET id == CacheLookup(c, k)
    IN  IF id = 0 THEN [rc |-> c, entry |-> 0]
        ELSE IF IsExpired(c.heap[id], t)
             THEN [rc |-> CacheDelete(c, k), entry |-> 0]
             ELSE [rc |-> HitInc(c, id), entry |-> id]

\* RoundTrip(req) when the origin would answer o: the outcomes, each the
\* cache left, the response returned and whether the origin was invoked
RoundTrip(c, req, o, t) ==
    IF req.method # "GET"
    THEN {[rc |-> c, resp |-> o, origin |-> TRUE]}
    ELSE
      LET key == GenerateCacheKey(req.method, req.path, req.query)
          got == CacheGet(c, key, t)
      IN  IF got.entry # 0
          THEN {[rc |-> got.rc, origin |-> FALSE,
                 resp |-> [status |-> got.rc.heap[got.entry].status,
                           headers |-> got.rc.heap[got.entry].headers,
                           body |-> got.rc.heap[got.entry].body]]}
          ELSE IF CacheableResponse(o.status, o.headers)
               THEN {[rc |-> c2, origin |-> TRUE,
                      resp |-> [o EXCEPT !.headers.XCache = "MISS"]] :
                        c2 \in CacheSet(got.rc, key,
                                 [status |-> o.status, headers |-> o.headers,
                                  body |-> o.body,
                                  expiresAt |-> t + ExtractCacheTTL(o.headers),
                                  hitCount |-> 0])}
               ELSE {[rc |-> got.rc, resp |-> o, origin |-> TRUE]}

InitRT ==
    /\ now = 0
    /\ rc = NewResponseCache
    /\ last = <<>>
    /\ pc = <<>> /\ loc = <<>>
    /\ policies = <<>> /\ buckets = <<>> /\ sw = <<>> /\ rhash = <<>>
    /\ rzset = <<>> /\ hist = <<>> /\ mu = 0
    /\ backend = "memory" /\ resp = <<>> /\ cb = <<>> /\ cbp = <<>>
    /\ rolePermissions = <<>> /\ apiKeys = <<>>

TickRT ==
    /\ now < MaxRTTime
    /\ now' = now + 1
    /\ UNCHANGED <<rc, pc, loc, last, CacheRest>>

\* one request through RoundTrip
RTRequest ==
    /\ rc.ops < MaxRTReqs
    /\ \E req \in RTRequests, o \in OriginResponses :
        \E out \in RoundTrip(rc, req, o, now) :
            /\ rc' = CacheCollect([out.rc EXCEPT !.ops = @ + 1], {})
            /\ last' = [req |-> req, resp |-> out.resp, origin |-> out.origin]
    /\ UNCHANGED <<now, pc, loc, CacheRest>>

NextRT == TickRT \/ RTRequest

SpecRT == InitRT /\ [][NextRT]_vars

\* the spec's condition for a response to be stored: status 200 or 404,
\* no no-cache and no no-store directive, body within max_entry_size
Storable(r) ==
    /\ r.status \in {200, 404}
    /\ \A i \in DOMAIN r.headers.CacheControl :
           r.headers.CacheControl[i].name \notin {"no-cache", "no-store"}
    /\ Len(r.body) <= CacheMaxEntry

LastKey == GenerateCacheKey(last.req.method, last.req.path, last.req.query)

C29_XCacheHeader ==
    [][ rc'.ops # rc.ops =>
          /\ ~last'.origin => last'.resp.headers.XCache = "HIT"
          /\ (last'.origin /\ rc'.nextId # rc.nextId)
                => last'.resp.headers.XCache = "MISS" ]_vars

\* C30: RoundTrip stores a response only if the method is GET, the status
\* is 200 or 404 and Cache-Control has no no-cache and no no-store
\* directive, alone or among other directives.
C30_StoresOnlyCacheable ==
    [][ (rc'.ops # rc.ops /\ rc'.nextId # rc.nextId) =>
          /\ last'.req.method = "GET"
          /\ last'.resp.status \in {200, 404}
          /\ \A i \in DOMAIN last'.resp.headers.CacheControl :
                last'.resp.headers.CacheControl[i].name
                    \notin {"no-cache", "no-store"} ]_vars

(***************************************************************************)
(* config.dynamicPolicyStore used on its own: SetPolicy, GetPolicy and     *)
(* ListPolicies on the table NewPolicyStore returns.                       *)
(***************************************************************************)
TableKeys == {"api-key:premium", "k1", "k2"}

TablePolicies ==
    { PolicyConfig("tokenbucket", 5, 1, 0, 0),
      PolicyConfig("slidingwindow", 0, 0, 1000, 2) }

InitTable ==
    /\ now = 0
    /\ policies = NewPolicyStore
    /\ backend = "memory"
    /\ rc = <<>>
    /\ Idle

TableOps == IF last = <<>> THEN 0 ELSE last.n

TableRest == <<rolePermissions, apiKeys, now, buckets, sw, rhash, rzset, hist, mu, pc, loc, backend,
               resp, cb, cbp, rc>>

TableSet ==
    /\ TableOps < MaxTableOps
    /\ \E k \in TableKeys, p \in TablePolicies :
        /\ SetPolicy(k, p)
        /\ last' = [n |-> TableOps + 1, op |-> "set", key |-> k, p |-> p,
                    again |-> (last # <<>> /\ last.op = "set"
                                 /\ last.key = k /\ last.p = p)]
    /\ UNCHANGED TableRest

TableGet ==
    /\ TableOps < MaxTableOps
    /\ \E k \in TableKeys :
        last' = [n |-> TableOps + 1, op |-> "get", key |-> k,
                 p |-> GetPolicy(k), again |-> FALSE]
    /\ UNCHANGED <<policies, TableRest>>

TableList ==
    /\ TableOps < MaxTableOps
    /\ last' = [n |-> TableOps + 1, op |-> "list", key |-> "",
                p |-> ListPolicies, again |-> FALSE]
    /\ UNCHANGED <<policies, TableRest>>

NextTable == TableSet \/ TableGet \/ TableList

SpecTable == InitTable /\ [][NextTable]_vars

\* C31: after SetPolicy(k, p) both ListPolicies()[k] and GetPolicy(k) are
\* p and the entries of the other keys are as before; a SetPolicy(k, p)
\* that directly follows a SetPolicy(k, p) leaves the table as it was;
\* GetPolicy of a key with no entry returns the built-in default and adds
\* no entry; ListPolicies returns the table's content.
C31_SetIdempotent ==
    [][ /\ (last' # last /\ last'.op = "set") =>
              /\ ListPolicies'[last'.key] = last'.p
              /\ \A k \in TableKeys :
                     k = last'.key => GetPolicy(k)' = last'.p
              /\ DOMAIN policies' = DOMAIN policies \cup {last'.key}
              /\ \A o \in DOMAIN policies \ {last'.key} :
                     policies'[o] = policies[o]
              /\ last'.again => policies' = policies
        /\ (last' # last /\ last'.op = "get") =>
              /\ policies' = policies
              /\ last'.key \notin DOMAIN policies =>
                    last'.p = [Algorithm |-> "tokenbucket", Capacity |-> 100,
                               Rate |-> 100, WindowMs |-> 0, Limit |-> 100]
              /\ last'.key \in DOMAIN policies => last'.p = policies[last'.key]
        /\ (last' # last /\ last'.op = "list") =>
              /\ policies' = policies
              /\ last'.p = policies ]_vars

\* C31 witness: a built-in policy was overwritten by a SetPolicy, the same
\* SetPolicy was made a second time, and the key that was never set has
\* no entry.
C31_Witness ==
    /\ last # <<>> /\ last.op = "set" /\ last.again
    /\ last.key = "api-key:premium"
    /\ policies["api-key:premium"] = last.p
    /\ "k1" \notin DOMAIN policies

(***************************************************************************)
(* middleware.RateLimit over the table NewPolicyStore returns, as main     *)
(* builds it: requests that present the built-in keys, requests to the     *)
(* built-in endpoint, and requests whose X-API-Key is another client's     *)
(* address.                                                                *)
(***************************************************************************)
SeedRequests ==
    [apiKey : {"", "api-key:premium", "api-key:standard", "10.0.0.1"},
     xff : {<<>>}, remote : {"10.0.0.1", "10.0.0.2"},
     path : {"/api/users", "/api/expensive"}]

InitSeed ==
    /\ now = 0
    /\ policies = NewPolicyStore
    /\ backend \in {"memory", "redis"}
    /\ rc = <<>>
    /\ Idle

TickSeed ==
    /\ now < MaxSeedTime
    /\ Tick
    /\ UNCHANGED <<rolePermissions, apiKeys, cbp, rc, cb, policies, buckets, sw, rhash, rzset, hist,
                   last, mu, pc, loc, backend, resp>>

\* one request through the RateLimit handler
SeedRequest ==
    /\ Len(hist) < MaxSeedReqs
    /\ \E r \in SeedRequests :
        LET lookup == Fingerprint(r)
            p == GetPolicy(lookup)
            a == LimiterAllow(backend, StoreTB, StoreWS, lookup, p, now, FALSE)
            out == RateLimitAnswer(a, p)
        IN  /\ WriteStore(a)
            /\ resp' = [req |-> r, lookup |-> lookup, policy |-> p,
                        status |-> out.status, limitHdr |-> out.limitHdr,
                        remainingHdr |-> out.remainingHdr]
            /\ hist' = Append(hist, [req |-> r, lookup |-> lookup])
    /\ UNCHANGED <<rolePermissions, apiKeys, cbp, rc, cb, now, policies, last, mu, pc, loc, backend>>

NextSeed == TickSeed \/ SeedRequest

SpecSeed == InitSeed /\ [][NextSeed]_vars

\* C32: a request with X-API-Key: api-key:premium is limited by a token
\* bucket of capacity 1000 and rate 1000, one with api-key:standard by a
\* token bucket of capacity 100 and rate 100, and one to /api/expensive
\* by a sliding window of 1000 ms and limit 10.
C32_SeededPoliciesApply ==
    resp # <<>> =>
        /\ resp.req.apiKey = "api-key:premium" =>
              /\ resp.policy.Algorithm = "tokenbucket"
              /\ resp.policy.Capacity = 1000 /\ resp.policy.Rate = 1000
              /\ resp.limitHdr = 1000
        /\ resp.req.apiKey = "api-key:standard" =>
              /\ resp.policy.Algorithm = "tokenbucket"
              /\ resp.policy.Capacity = 100 /\ resp.policy.Rate = 100
        /\ (resp.req.path = "/api/expensive"
              /\ resp.req.apiKey \notin {"api-key:premium", "api-key:standard"})
              => /\ resp.policy.Algorithm = "slidingwindow"
                 /\ resp.policy.WindowMs = 1000 /\ resp.policy.Limit = 10

IdentityKind(r) == IF r.apiKey # "" THEN "api-key" ELSE "ip"

IdentityValue(r) == IF r.apiKey # "" THEN r.apiKey ELSE ClientIP(r)

\* C38: two requests are counted against the same bucket only if they are
\* identified in the same way (both by API key or both by address), by
\* the same value, and ask for the same path.
C38_FingerprintInjective ==
    \A i, j \in 1..Len(hist) :
        hist[i].lookup = hist[j].lookup =>
            /\ IdentityKind(hist[i].req) = IdentityKind(hist[j].req)
            /\ IdentityValue(hist[i].req) = IdentityValue(hist[j].req)
            /\ hist[i].req.path = hist[j].req.path

(***************************************************************************)
(* middleware.RBACMiddleware, alone and behind NewJWTMiddleware or         *)
(* APIKeyMiddleware.                                                       *)
(*                                                                         *)
(* A path or pattern is the sequence of its characters.  A bearer token is *)
(* what jwt.ParseWithClaims makes of it: whether it parses and verifies    *)
(* under the secret with an HMAC method, and its exp, iss, sub and role    *)
(* claims.  A request carries an Authorization token (<<>> when the header *)
(* is absent), X-API-Key, the X-User-Role header the client sent, and the  *)
(* URL path.                                                               *)
(***************************************************************************)
HasSuffix(str, suffix) ==
    /\ Len(str) >= Len(suffix)
    /\ SubSeq(str, Len(str) - Len(suffix) + 1, Len(str)) = suffix

HasPrefix(str, prefix) ==
    /\ Len(str) >= Len(prefix)
    /\ SubSeq(str, 1, Len(prefix)) = prefix

TrimSuffix(str, suffix) ==
    IF HasSuffix(str, suffix) THEN SubSeq(str, 1, Len(str) - Len(suffix))
    ELSE str

\* matchPath(pattern, path)
matchPath(pattern, path) ==
    IF pattern = path THEN TRUE
    ELSE IF HasSuffix(pattern, <<"/", "*">>)
         THEN HasPrefix(path, TrimSuffix(pattern, <<"/", "*">>) \o <<"/">>)
         ELSE FALSE

\* hasAccessToPath(role, path)
hasAccessToPath(role, path) ==
    IF role \notin DOMAIN rolePermissions THEN FALSE
    ELSE \E i \in DOMAIN rolePermissions[role] :
             matchPath(rolePermissions[role][i], path)

\* RBACMiddleware.Handler on a request whose X-User-Role header is role
RBACHandler(role, path) ==
    IF role = "" THEN [status |-> 401, next |-> FALSE]
    ELSE IF ~hasAccessToPath(role, path) THEN [status |-> 403, next |-> FALSE]
    ELSE [status |-> 200, next |-> TRUE]

\* APIKeyStore.ValidateKey(key, path): the role of the key, "" with an error
ValidateKey(key, path) ==
    IF key \notin DOMAIN apiKeys THEN [err |-> "invalid_api_key", role |-> ""]
    ELSE IF ~apiKeys[key].Enabled THEN [err |-> "api_key_disabled", role |-> ""]
    ELSE IF Len(apiKeys[key].Paths) > 0
              /\ ~\E i \in DOMAIN apiKeys[key].Paths :
                     matchPath(apiKeys[key].Paths[i], path)
         THEN [err |-> "api_key_path_denied", role |-> ""]
         ELSE [err |-> "", role |-> apiKeys[key].Role]

\* APIKeyMiddleware.Handler: whether next is called, and with which
\* X-User-Role header
APIKeyHandler(r) ==
    IF r.apiKey = "" THEN [status |-> 200, next |-> TRUE, role |-> r.role]
    ELSE LET v == ValidateKey(r.apiKey, r.path)
         IN  IF v.err # "" THEN [status |-> 401, next |-> FALSE, role |-> ""]
             ELSE [status |-> 200, next |-> TRUE, role |-> v.role]

\* the expectedIssuer the JWT middleware is built with
ExpectedIssuer == "gateway"

\* NewJWTMiddleware(secret, ExpectedIssuer) at clock reading t
JWTHandler(r, t) ==
    LET tok == r.token
        deny == [status |-> 401, next |-> FALSE, role |-> ""]
    IN  IF tok = <<>> THEN deny
        ELSE IF ~tok.verifies THEN deny
        ELSE IF ~tok.hasExp THEN deny
        ELSE IF t > tok.exp THEN deny
        ELSE IF ExpectedIssuer # "" /\ tok.iss # ExpectedIssuer THEN deny
        ELSE [status |-> 200, next |-> TRUE,
              role |-> IF tok.role # "" THEN tok.role ELSE r.role]

\* a request through the chain auth -> RBAC -> handler
AuthChain(auth, r, t) ==
    LET a == CASE auth = "jwt" -> JWTHandler(r, t)
               [] auth = "apikey" -> APIKeyHandler(r)
               [] OTHER -> [status |-> 200, next |-> TRUE, role |-> r.role]
    IN  IF ~a.next
        THEN [status |-> a.status, rbac |-> FALSE, next |-> FALSE, role |-> ""]
        ELSE [status |-> RBACHandler(a.role, r.path).status, rbac |-> TRUE,
              next |-> RBACHandler(a.role, r.path).next, role |-> a.role]

AuthPaths ==
    { <<"/", "a">>, <<"/", "a", "/">>, <<"/", "a", "/", "b">>, <<"/", "b">>,
      <<"/", "a", "b">> }

Token(verifies, hasExp, exp, iss, sub, role) ==
    [verifies |-> verifies, hasExp |-> hasExp, exp |-> exp, iss |-> iss,
     sub |-> sub, role |-> role]

AuthTokens ==
    { Token(TRUE, TRUE, MaxAuthTime, "gateway", "u1", "user"),
      Token(TRUE, TRUE, MaxAuthTime, "gateway", "u2", ""),
      Token(TRUE, TRUE, 0, "gateway", "u1", "admin"),
      Token(TRUE, FALSE, 0, "gateway", "u1", "admin"),
      Token(TRUE, TRUE, MaxAuthTime, "other", "u1", "admin"),
      Token(FALSE, TRUE, MaxAuthTime, "gateway", "u1", "admin") }

\* the requests of one route: behind no auth middleware, behind the JWT
\* middleware, behind the API key middleware
AuthRequests(auth) ==
    [token : IF auth = "jwt" THEN AuthTokens \cup {<<>>} ELSE {<<>>},
     apiKey : IF auth = "apikey"
              THEN {"", "key_user", "key_off", "key_all", "key_none"}
              ELSE {""},
     role : {"", "admin", "guest"},
     path : AuthPaths]

APIKeyRec(role, enabled, paths) ==
    [Role |-> role, Enabled |-> enabled, Paths |-> paths]

InitAuth ==
    /\ now = 0
    /\ rolePermissions \in
          { [x \in {"admin", "user"} |->
                IF x = "admin" THEN << <<"/", "a", "/", "*">>, <<"/", "b">> >>
                ELSE << <<"/", "a">> >>],
            [x \in {"admin"} |-> << <<"/", "*">> >>] }
    /\ apiKeys =
          [k \in {"key_user", "key_off", "key_all"} |->
              CASE k = "key_user" ->
                      APIKeyRec("user", TRUE, << <<"/", "a", "/", "*">> >>)
                [] k = "key_off" -> APIKeyRec("admin", FALSE, <<>>)
                [] OTHER -> APIKeyRec("admin", TRUE, <<>>)]
    /\ policies = <<>> /\ buckets = <<>> /\ sw = <<>> /\ rhash = <<>>
    /\ rzset = <<>> /\ hist = <<>> /\ last = <<>> /\ mu = 0
    /\ pc = <<>> /\ loc = <<>> /\ backend = "memory" /\ resp = <<>>
    /\ cb = <<>> /\ cbp = <<>> /\ rc = <<>>

AuthRest == <<rolePermissions, apiKeys, policies, buckets, sw, rhash, rzset,
              last, mu, pc, loc, backend, cb, cbp, rc>>

TickAuth ==
    /\ now < MaxAuthTime
    /\ now' = now + 1
    /\ UNCHANGED <<hist, resp, AuthRest>>

AuthRequest ==
    /\ Len(hist) < MaxAuthReqs
    /\ \E auth \in {"none", "jwt", "apikey"} : \E r \in AuthRequests(auth) :
        LET out == AuthChain(auth, r, now)
            rec == [auth |-> auth, req |-> r, t |-> now, out |-> out]
        IN  /\ resp' = rec
            /\ hist' = Append(hist, rec)
    /\ UNCHANGED <<now, AuthRest>>

NextAuth == TickAuth \/ AuthRequest

SpecAuth == InitAuth /\ [][NextAuth]_vars

\* a pattern matches a path as the spec has it: an exact pattern the
\* identical path, a pattern p/* the paths p/ followed by at least one
\* character
PatternMatches(pattern, path) ==
    \/ pattern = path
    \/ /\ Len(pattern) >= 2
       /\ SubSeq(pattern, Len(pattern) - 1, Len(pattern)) = <<"/", "*">>
       /\ Len(path) > Len(pattern) - 1
       /\ SubSeq(path, 1, Len(pattern) - 1)
              = SubSeq(pattern, 1, Len(pattern) - 1)

\* C33: RBAC calls the next handler exactly when some pattern of the
\* request's role matches the path; without an X-User-Role it answers 401
\* and with a role none of whose patterns matches it answers 403, the
\* next handler not being called.
C33_RBACDecision ==
    (resp # <<>> /\ resp.out.rbac) =>
        LET role == resp.out.role
            path == resp.req.path
            some == /\ role \in DOMAIN rolePermissions
                    /\ \E i \in DOMAIN rolePermissions[role] :
                          PatternMatches(rolePermissions[role][i], path)
        IN  /\ resp.out.next <=> (role # "" /\ some)
            /\ role = "" => resp.out.status = 401
            /\ (role # "" /\ ~some) => resp.out.status = 403

\* the credential a request authenticates with
Credential(rec) ==
    IF rec.auth = "jwt" THEN [token |-> rec.req.token, apiKey |-> ""]
    ELSE [token |-> <<>>, apiKey |-> rec.req.apiKey]

\* C37: behind an auth middleware, two requests made at the same time for
\* the same path with the same credential are answered alike and reach
\* RBAC and the handler with the same X-User-Role, whatever X-User-Role
\* header each of them was sent with.
C37_RoleFromCredentialOnly ==
    \A i, j \in 1..Len(hist) :
        (/\ hist[i].auth \in {"jwt", "apikey"}
         /\ hist[i].auth = hist[j].auth
         /\ Credential(hist[i]) = Credential(hist[j])
         /\ hist[i].req.path = hist[j].req.path
         /\ hist[i].t = hist[j].t)
        => hist[i].out = hist[j].out

\* C34: the success of a call that was admitted while the breaker was
\* closed and returns while it is half-open is not counted: it leaves
\* successCount as it was and the breaker half-open.
C34_OnlyTrialSuccessesCount ==
    [][ \A p \in Callers :
          (/\ pc[p] = "fn" /\ pc'[p] = "release"
           /\ Len(hist') = Len(hist) + 1 /\ hist'[Len(hist')] = "ok"
           /\ loc[p].admitted = StateClosed
           /\ cb.state = StateHalfOpen)
          => /\ cb'.successCount = cb.successCount
             /\ cb'.state = StateHalfOpen ]_vars

\* C35: a Set that stores an entry under a key that is present replaces
\* the entry of that key and removes no other key.
C35_SetPresentKeepsOthers ==
    [][ (rc'.nextId # rc.nextId /\ last'.key \in DOMAIN rc.cache) =>
          /\ DOMAIN rc'.cache = DOMAIN rc.cache
          /\ rc'.cache[last'.key] = rc'.nextId
          /\ \A o \in DOMAIN rc.cache \ {last'.key} :
                 rc'.cache[o] = rc.cache[o] ]_vars

\* C36: the delete of a Get that found an expired entry under k leaves in
\* place an unexpired entry that a Set has stored under k since the Get
\* read the map.
C36_GetKeepsFreshEntry ==
    [][ \A p \in CacheProcs :
          (/\ pc[p] = "get.delete" /\ pc'[p] = "idle"
           /\ loc[p].key \in DOMAIN rc.cache
           /\ rc.cache[loc[p].key] # loc[p].entry
           /\ now <= rc.heap[rc.cache[loc[p].key]].expiresAt)
          => /\ loc[p].key \in DOMAIN rc'.cache
             /\ rc'.cache[loc[p].key] = rc.cache[loc[p].key] ]_vars

(***************************************************************************)
(* One caller that polls Limiter.Allow on one fingerprint for ever, under  *)
(* a token-bucket policy with rate > 0, both stores driven by the same     *)
(* calls at the same clock readings.  The caller may poll any number of    *)
(* times between two clock readings.  last holds the answers to the latest *)
(* poll and the number of denied polls in a row that preceded it.          *)
(***************************************************************************)
MaxRetryTime == 5
MaxDenied == 2

RetryCaps == {1, 2}
RetryRates == {250, 400, 500}
RetryPolicies ==
    {PolicyConfig(TokenBucketAlg, c, r, 0, 0) : c \in RetryCaps, r \in RetryRates}

\* the ms after which a rate of refillRate tokens per second has added one
\* whole token
TokenInterval(refillRate) == (MsPerSec + refillRate - 1) \div refillRate

InitRetry ==
    /\ now = 0
    /\ policies \in [{FpA} -> RetryPolicies]
    /\ backend = "both"
    /\ Idle

RetryRest ==
    <<rolePermissions, apiKeys, cbp, rc, cb, policies, sw, rzset, hist, mu,
      pc, loc, backend, resp>>

TickRetry ==
    /\ now < MaxRetryTime
    /\ now' = now + 1
    /\ UNCHANGED <<buckets, rhash, last>>
    /\ UNCHANGED RetryRest

DeniedRun(field, allowedField) ==
    IF last = <<>> THEN 0
    ELSE IF last[allowedField] THEN 0
    ELSE Min(last[field] + 1, MaxDenied)

RetryCall ==
    /\ LET p == GetPolicy(FpA)
           m == LimiterAllow("memory", buckets, sw, FpA, p, now, FALSE)
           r == LimiterAllow("redis", rhash, rzset, FpA, p, now, FALSE)
       IN  /\ buckets' = m.tb
           /\ rhash' = r.tb
           /\ last' = [t |-> now, rate |-> p.Rate,
                       mAllowed |-> m.allowed, rAllowed |-> r.allowed,
                       mDenied |-> DeniedRun("mDenied", "mAllowed"),
                       rDenied |-> DeniedRun("rDenied", "rAllowed")]
    /\ UNCHANGED now
    /\ UNCHANGED RetryRest

NextRetry == TickRetry \/ RetryCall

\* the clock advances and the caller keeps polling
SpecRetry ==
    /\ InitRetry /\ [][NextRetry]_vars
    /\ WF_vars(TickRetry) /\ WF_vars(RetryCall)

\* the latest poll was denied by the store, at a clock reading that leaves
\* one token interval before the clock of the model stops
DeniedInTime(allowedField) ==
    /\ last # <<>>
    /\ ~last[allowedField]
    /\ now + TokenInterval(last.rate) <= MaxRetryTime

AllowedNow(allowedField) == last # <<>> /\ last[allowedField]

\* C39: with rate > 0, a caller that was denied and keeps polling while
\* the clock advances, however often it polls, is allowed again; denied
\* polls lose none of the refill.  Of both stores.
C39_RetryEventuallyAllowed ==
    /\ DeniedInTime("mAllowed") ~> AllowedNow("mAllowed")
    /\ DeniedInTime("rAllowed") ~> AllowedNow("rAllowed")

\* C39 witness: a poll is allowed by both stores after two or more denied
\* polls in a row, under a policy whose token interval is longer than
\* 1 ms, so that the denied polls came more often than once per interval.
C39_Witness ==
    /\ last # <<>>
    /\ last.mAllowed /\ last.rAllowed
    /\ last.mDenied >= 2 /\ last.rDenied >= 2
    /\ TokenInterval(last.rate) > 1

\* the calls before call i that the memory store still holds when call i
\* arrives: those not older than W ms
HeldBefore(i) == {j \in 1..(i - 1) : hist[j].t >= hist[i].t - hist[i].window}

\* C40: the memory store records the timestamp of every SlidingWindow call
\* before the Limiter decides, so a denied call takes a slot of the window
\* as an allowed one does: the count of a call is the number of calls,
\* allowed or denied, still held plus itself; a call that finds more than
\* limit calls within its W ms (itself included) is denied; and a call is
\* allowed only when fewer than limit earlier calls remain within its
\* W ms.
C40_DeniedCallsOccupySlots ==
    /\ hist # <<>> =>
         LET arr == sw[SWKey(FpA)]
         IN  Len(arr) > 0 /\ arr[Len(arr)] = hist[Len(hist)].t
    /\ \A i \in 1..Len(hist) :
         /\ hist[i].mCount = Cardinality(HeldBefore(i)) + 1
         /\ Cardinality(InWindow(i)) > hist[i].limit => ~hist[i].mAllowed
         /\ hist[i].mAllowed => Cardinality(InWindow(i) \ {i}) < hist[i].limit

\* C40 witness: call i is denied although fewer than limit of the calls
\* held before it were allowed (the slots are taken by denied calls), and
\* a later call, made when fewer than limit calls remain, is allowed.
C40_Witness ==
    \E i \in 1..Len(hist) :
        /\ ~hist[i].mAllowed
        /\ Cardinality({j \in HeldBefore(i) : hist[j].mAllowed}) < hist[i].limit
        /\ \E j \in HeldBefore(i) : ~hist[j].mAllowed
        /\ \E k \in (i + 1)..Len(hist) :
               hist[k].mAllowed /\ Cardinality(HeldBefore(k)) < hist[k].limit

====
